---- MODULE Spec2Model ----
(***************************************************************************)
(* Model of the concurrent runtime of corystack-bundle:                    *)
(*   - RateLimiter      (src/core/rate-limiter.ts)                         *)
(*   - SessionManager   (src/core/session-manager.ts)                      *)
(*   - StealthScraper   (src/core/stealth-scraper.ts)                      *)
(*                                                                         *)
(* JavaScript runs one callback at a time: the code between two `await`s   *)
(* is one atomic action here, and an `await` is a point where any other    *)
(* callback may run.                                                       *)
(*                                                                         *)
(* Time.  The rate limiter only ever uses differences Date.now() - t, so   *)
(* every stored timestamp t is kept as its age Date.now() - t (saturating  *)
(* at the largest value any comparison of the code distinguishes) and a    *)
(* timer as the time left until it is due.  Durations are counted in       *)
(* ticks; the millisecond durations of the source are scaled to ticks      *)
(* keeping their order: 100 < 1000 < 5000 < 60000 < 3600000.               *)
(* The millisecond value of Date.now() that ends up inside a request id    *)
(* is kept as a stamp: two calls get the same stamp exactly when they      *)
(* read the same millisecond.                                              *)
(***************************************************************************)
EXTENDS Integers, Sequences, FiniteSets, TLC

\* ------------------------------------------------------------------------
\* Bounds of the model
\* ------------------------------------------------------------------------
\* number of concurrent callers of the rate limiter
NumCallers == 2
\* how many times triggerBackoff() is called in one run
MaxTriggers == 2
\* the largest proxy pool
MaxPool == 3
\* how many jobs are added to the queue in one run
MaxJobs == 3
\* the largest priority number of a task or of an add option
MaxPriority == 3
\* how many times addProxy(), removeProxy() and updateProxyStats() are called
\* in one run
MaxChanges == 3
\* how many times updateProxyStats() is called in one run that only fails proxies
MaxDrain == 16
\* number of concurrent clients of a SessionManager used directly
NumClients == 3
\* number of concurrent operations of a StealthScraper
NumTasks == 2
\* how many sessions are created in one run
MaxCreated == 4
\* the age from which the startTime of a session is no longer told apart
MaxAge == 2
\* the largest `attempts` / `requestsPerSession` option
MaxAttempts == 2
\* the largest number of detections analyzePage reports for one page
MaxDetections == 2
\* number of concurrent operations of a StealthScraper whose page loads are
\* followed step by step
NumLoaders == 1
\* how many executeTask and testSecurity calls are followed step by step in
\* one run
MaxScrapes == 2
\* how many requests, detections and alerts are logged in one run, of each kind
MaxLogged == 4
MaxIssued == 3           \* session ids a ResidentialProxyManager generates
MaxFailures == 3         \* recordFailure calls on one provider session
MaxMinutes == 2          \* minutes a provider session's age is told apart

\* ------------------------------------------------------------------------
\* Durations of rate-limiter.ts, in ticks
\* ------------------------------------------------------------------------
\* sleep(100) while the concurrent limit is reached
SLEEP_CONCURRENT == 1
\* the one-second window, `now - r.timestamp < 1000`
WINDOW_SECOND == 2
\* the one-minute window, `now - r.timestamp < 60000`
WINDOW_MINUTE == 4
\* MonitoringSystem.maxHistorySize, 10000, in entries of the model
MAX_HISTORY_SIZE == 3
\* the 1000 detections logDetection keeps, in entries of the model
MAX_DETECTIONS_KEPT == 2
\* the default `limit` of getRecentAlerts, 100, in entries of the model
DEFAULT_ALERT_LIMIT == 2
DEFAULT_MAX_FAILURES == 3     \* ResidentialProxyManager: maxFailuresPerProxy
\* the one-hour window, `now - r.timestamp < 3600000`
WINDOW_HOUR == 5
\* waitTime: 1000 when the second limit is reached
WAIT_SECOND == 2
\* waitTime: 5000 when the minute limit is reached
WAIT_MINUTE == 3
\* waitTime: 60000 when the hour limit is reached
WAIT_HOUR == 4
\* `this.backoffTime = 1000; // Start with 1 second`
BACKOFF_INITIAL == 2

\* defaults of the constructor
DEFAULT_RPS == 2
DEFAULT_RPM == 60
DEFAULT_RPH == 1000
DEFAULT_MAX_CONCURRENT == 5
DEFAULT_BACKOFF_MULTIPLIER == 2
\* 60000, one minute
DEFAULT_BACKOFF_MAX == 4
\* `maxSessions: number = 10` of the SessionManager constructor
DEFAULT_MAX_SESSIONS == 10
\* ProxyManager.constructor: rotationInterval = 60000
DEFAULT_ROTATION_INTERVAL == 4
\* DistributedQueue.addTask: `|| 1`
DEFAULT_TASK_PRIORITY == 1
\* DistributedQueue.addSecurityTest: `|| 2`
DEFAULT_SECURITY_PRIORITY == 2

Min(a, b) == IF a <= b THEN a ELSE b
Max(a, b) == IF a >= b THEN a ELSE b

\* ------------------------------------------------------------------------
\* Strings: a string is a sequence of characters
\* ------------------------------------------------------------------------
\* String.prototype.startsWith
startsWith(s, prefix) ==
    /\ Len(prefix) <= Len(s)
    /\ SubSeq(s, 1, Len(prefix)) = prefix

\* the URLs callers pass; the second one extends the first
Urls == { <<"h">>, <<"h", "/p">> }

\* renderings of Date.now(), one per millisecond that is still referenced
StampNames == <<"t0", "t1", "t2", "t3", "t4", "t5", "t6", "t7", "t8", "t9">>

\* `${url}-${Date.now()}`
makeRequestId(u, stamp) == u \o <<"-", stamp>>

\* ------------------------------------------------------------------------
\* Configurations the limiter is constructed with (0: the key is not given)
\* ------------------------------------------------------------------------
RateLimitConfig(rps, rpm, rph, conc, mult, bmax) ==
    [maxRequestsPerSecond |-> rps, maxRequestsPerMinute |-> rpm,
     maxRequestsPerHour |-> rph, maxConcurrent |-> conc,
     backoffMultiplier |-> mult, backoffMax |-> bmax]

\* two callers reach each of the three window limits
WindowConfigs == { RateLimitConfig(2, 3, 4, 2, 0, 0) }

\* one slot; the backoff keys left out, a multiplier of 1, a backoffMax below
\* the first delay
BackoffConfigs ==
    { RateLimitConfig(1, 2, 3, 1, 0, 0),
      RateLimitConfig(1, 2, 3, 1, 1, 3),
      RateLimitConfig(1, 2, 3, 1, 3, 1) }

\* one slot, the backoff keys left out
LiveConfigs == { RateLimitConfig(1, 2, 2, 1, 0, 0) }

\* three callers fit the windows, two fit the concurrent limit
CrowdConfigs == { RateLimitConfig(3, 3, 3, 2, 0, 0) }

\* `config.x || default`
orDefault(v, d) == IF v = 0 THEN d ELSE v

\* RateLimiter.constructor
RateLimiterConfig(c) ==
    [maxRequestsPerSecond |-> orDefault(c.maxRequestsPerSecond, DEFAULT_RPS),
     maxRequestsPerMinute |-> orDefault(c.maxRequestsPerMinute, DEFAULT_RPM),
     maxRequestsPerHour   |-> orDefault(c.maxRequestsPerHour, DEFAULT_RPH),
     maxConcurrent        |-> orDefault(c.maxConcurrent, DEFAULT_MAX_CONCURRENT),
     backoffMultiplier    |-> orDefault(c.backoffMultiplier, DEFAULT_BACKOFF_MULTIPLIER),
     backoffMax           |-> orDefault(c.backoffMax, DEFAULT_BACKOFF_MAX)]

\* ------------------------------------------------------------------------
\* State
\* ------------------------------------------------------------------------
VARIABLES
    config,              \* RateLimiter.config
    requests,            \* RateLimiter.requests: the age of each timestamp, in push order
    concurrentRequests,  \* RateLimiter.concurrentRequests: the ids, in insertion order
    backoffTime,         \* RateLimiter.backoffTime
    sinceBackoff,        \* Date.now() - RateLimiter.lastBackoff, saturating
    stamp,               \* the rendering of the current millisecond of Date.now()
    pc,                  \* per caller: "idle", "waiting" (inside waitForSlot), "holding"
    url,                 \* per caller: the url of its waitForSlot call
    requestId,           \* per caller: the requestId local of its waitForSlot call
    timer,               \* per caller: ticks until its sleep() resolves
    backedOff,           \* history, per caller: its current call has slept on a backoff
    admitted,            \* history: the age of every admission of the last hour
    triggers,            \* history: number of triggerBackoff() calls so far
    maxSessions,         \* SessionManager.maxSessions
    sessions,            \* SessionManager.sessions: [id, age of startTime], in insertion order
    closedBrowsers,      \* ids of the sessions whose browser.close() has run
    nextId,              \* the next uuidv4(): ids are never repeated
    spc,                 \* per client: where its current operation stands
    op,                  \* per client: the operation it runs
    mine,                \* per client: the id of the session its operation obtained (0: none)
    victim,              \* per client: the session its cleanupOldestSession is closing
    attempt              \* per client: loop counter of testSecurity / stressTest

Callers == DOMAIN pc

rlVars == <<config, requests, concurrentRequests, backoffTime, sinceBackoff, stamp,
            pc, url, requestId, timer, backedOff, admitted, triggers>>

smVars == <<maxSessions, sessions, closedBrowsers, nextId, spc, op, mine, victim,
            attempt>>

Clients == DOMAIN spc

VARIABLES
    cleanupPc,           \* StealthScraper.cleanup: "idle", "closing", "done"
    cleanupIds           \* closeAllSessions: the ids whose closeSession is pending

clVars == <<cleanupPc, cleanupIds>>

VARIABLES
    proxies,             \* ProxyManager.proxies: [host, successRate, lastUsed, updated]
    currentIndex,        \* ProxyManager.currentIndex
    rotationInterval,    \* ProxyManager.rotationInterval
    sinceRotation,       \* Date.now() - ProxyManager.lastRotation, saturating
    changes,             \* history: number of calls that change the pool so far
    lastCall,            \* history: the latest ProxyManager call and its result
    lastNext             \* history: the host the latest getNextProxy() returned,
                         \* until that proxy is removed

pxVars == <<proxies, currentIndex, rotationInterval, sinceRotation, changes,
            lastCall, lastNext>>

VARIABLES
    proxyEnabled,        \* SessionManager.proxyManager is not null
    proxyOf,             \* per client: the host of session.proxy of the session it
                         \* creates or owns ("null": no proxy)
    rotated              \* history, per client: id and session.proxy of the session
                         \* it passed to rotateSession

bindVars == <<proxyEnabled, proxyOf, rotated>>

VARIABLES
    jobs,                \* the jobs of the BullMQ queue 'scraper-tasks', in add order
    queueConfig,         \* DistributedQueue.config: concurrency, attempts
    worker,              \* DistributedQueue.worker is not null
    nextSeq              \* BullMQ's counter of the jobs that became ready to run

qVars == <<jobs, queueConfig, worker, nextSeq>>

VARIABLES
    metrics,             \* StealthScraper.metrics: totalRequests, successfulRequests,
                         \* failedRequests
    load                 \* per client, about the session of its latest page load:
                         \* the session id, the outcome of every page load on it
                         \* (history), what the latest page load pushed onto
                         \* session.detections and passed to updateProxyStats
                         \* (history), and testSecurity's bypassSuccess

VARIABLES
    requestLogs,         \* MonitoringSystem.requests: the k-th log ever made is k
    detectionLogs,       \* MonitoringSystem.detections, likewise
    alerts,              \* AlertingSystem.alerts, likewise
    handlers,            \* AlertingSystem.handlers: the names, in insertion order
    invoked,             \* history: the handlers the latest alert() has called
    logged               \* history: how many requests, detections and alerts have
                         \* been logged so far

VARIABLES
    fingerprint,         \* a FingerprintGenerator's config and the identity its
                         \* generate() returned for a session
    residential          \* a ResidentialProxyManager: its config and fields

\* the components modelled after the queue
moreVars == <<metrics, load, requestLogs, detectionLogs, alerts, handlers, invoked,
              logged, fingerprint, residential>>

\* the components modelled after the proxies
restVars == <<qVars, moreVars>>

\* the state of the components other than RateLimiter and SessionManager
extVars == <<clVars, pxVars, bindVars, restVars>>

vars == <<rlVars, smVars, extVars>>

\* ------------------------------------------------------------------------
\* RateLimiter: helpers
\* ------------------------------------------------------------------------
\* number of entries of a sequence of ages that are younger than `window`
countWithin(ages, window) ==
    Cardinality({ i \in 1..Len(ages) : ages[i] < window })

\* the value from which Date.now() - lastBackoff is no longer told apart:
\* no backoffTime exceeds it
sinceCap == Max(BACKOFF_INITIAL, config.backoffMax)

\* isInBackoff with the comparison turned round
isInBackoffInverted ==
    IF backoffTime = 0 THEN FALSE ELSE sinceBackoff > backoffTime

\* RateLimiter.isInBackoff
isInBackoff ==
    IF backoffTime = 0 THEN FALSE ELSE sinceBackoff < backoffTime

\* RateLimiter.getBackoffRemaining
getBackoffRemaining ==
    IF ~isInBackoff THEN 0 ELSE Max(0, backoffTime - sinceBackoff)

\* RateLimiter.cleanOldRequests: keeps r.timestamp > now - 3600000
cleanOldRequests(reqs) ==
    LET younger(age) == age < WINDOW_HOUR
    IN  SelectSeq(reqs, younger)

\* checkLimits with `>` for `>=`
checkLimitsOffByOne(reqs) ==
    LET lastSecond == countWithin(reqs, WINDOW_SECOND)
        lastMinute == countWithin(reqs, WINDOW_MINUTE)
        lastHour   == countWithin(reqs, WINDOW_HOUR)
    IN  IF lastSecond > config.maxRequestsPerSecond
          THEN [canProceed |-> FALSE, waitTime |-> WAIT_SECOND]
        ELSE IF lastMinute > config.maxRequestsPerMinute
          THEN [canProceed |-> FALSE, waitTime |-> WAIT_MINUTE]
        ELSE IF lastHour > config.maxRequestsPerHour
          THEN [canProceed |-> FALSE, waitTime |-> WAIT_HOUR]
        ELSE [canProceed |-> TRUE, waitTime |-> 0]

\* RateLimiter.checkLimits
checkLimits(reqs) ==
    LET lastSecond == countWithin(reqs, WINDOW_SECOND)
        lastMinute == countWithin(reqs, WINDOW_MINUTE)
        lastHour   == countWithin(reqs, WINDOW_HOUR)
    IN  IF lastSecond >= config.maxRequestsPerSecond
          THEN [canProceed |-> FALSE, waitTime |-> WAIT_SECOND]
        ELSE IF lastMinute >= config.maxRequestsPerMinute
          THEN [canProceed |-> FALSE, waitTime |-> WAIT_MINUTE]
        ELSE IF lastHour >= config.maxRequestsPerHour
          THEN [canProceed |-> FALSE, waitTime |-> WAIT_HOUR]
        ELSE [canProceed |-> TRUE, waitTime |-> 0]

\* Set.prototype.add on the insertion-ordered set
setAdd(set, id) ==
    IF \E i \in 1..Len(set) : set[i] = id THEN set ELSE Append(set, id)

\* Array.from(set).find(id => id.startsWith(u)), as an index (0: undefined)
findStartsWith(set, u) ==
    LET hits == { i \in 1..Len(set) : startsWith(set[i], u) }
    IN  IF hits = {} THEN 0 ELSE CHOOSE i \in hits : \A j \in hits : i <= j

\* Set.prototype.delete of the element at index i
setDeleteAt(set, i) ==
    [k \in 1..(Len(set) - 1) |-> IF k < i THEN set[k] ELSE set[k + 1]]

\* releaseSlot that finds no id to delete
releaseSlotKeeps(set, u) == set

\* the body of RateLimiter.releaseSlot
releaseSlot(set, u) ==
    LET i == findStartsWith(set, u)
    IN  IF i # 0 THEN setDeleteAt(set, i) ELSE set

\* the new backoffTime of RateLimiter.triggerBackoff
nextBackoffTime(current) ==
    IF current = 0
      THEN BACKOFF_INITIAL
      ELSE Min(current * config.backoffMultiplier, config.backoffMax)

\* the stamps some live request id still carries
usedStamps ==
    { concurrentRequests[i][Len(concurrentRequests[i])] :
          i \in 1..Len(concurrentRequests) }
    \cup { requestId[c][Len(requestId[c])] : c \in { d \in Callers : pc[d] = "waiting" } }

\* the rendering of a millisecond later than every one still referenced
freshStamp ==
    LET free == { i \in 1..Len(StampNames) : StampNames[i] \notin usedStamps }
    IN  StampNames[CHOOSE i \in free : \A j \in free : i <= j]

\* ------------------------------------------------------------------------
\* RateLimiter: operations
\* ------------------------------------------------------------------------
RLInit(n, inputs) ==
    /\ config \in { RateLimiterConfig(c) : c \in inputs }
    /\ requests = <<>>
    /\ concurrentRequests = <<>>
    /\ backoffTime = 0
    /\ sinceBackoff = sinceCap
    /\ stamp = StampNames[1]
    /\ pc = [c \in 1..n |-> "idle"]
    /\ url = [c \in 1..n |-> <<>>]
    /\ requestId = [c \in 1..n |-> <<>>]
    /\ timer = [c \in 1..n |-> 0]
    /\ backedOff = [c \in 1..n |-> FALSE]
    /\ admitted = <<>>
    /\ triggers = 0

\* SessionManager field initialisers and constructor, n clients
\* no cleanup() has been called
CLInit ==
    /\ cleanupPc = "idle"
    /\ cleanupIds = {}

\* successRate is a number: held in millionths, products truncated
Scale == 1000000

\* a property that is not set
Undefined == 0 - 1

\* Proxy, as far as the ProxyManager reads it; host stands for host:port
Proxy(h, rate) ==
    [host |-> h, successRate |-> rate, lastUsed |-> Undefined, updated |-> FALSE]

\* the record of a ProxyManager call: what was called, with what, and what
\* it found and returned
Call(o) ==
    [op |-> o, host |-> "none", ok |-> FALSE, found |-> FALSE, before |-> Undefined,
     after |-> Undefined, removed |-> FALSE, result |-> "none", due |-> FALSE,
     indexBefore |-> 0, previous |-> "none"]

\* new ProxyManager(proxies, rotationInterval)
PXInit(pools, intervals) ==
    /\ proxies \in pools
    /\ currentIndex = 0
    /\ rotationInterval \in intervals
    /\ sinceRotation = 0
    /\ changes = 0
    /\ lastCall = Call("new")
    /\ lastNext = "none"

\* no session is bound to a proxy yet
BindInit(n, enabled) ==
    /\ proxyEnabled = enabled
    /\ proxyOf = [w \in 1..n |-> "null"]
    /\ rotated = [w \in 1..n |-> [id |-> 0, proxy |-> "null"]]

\* QueueConfig, as far as the model reads it
QueueConfig(conc, att) == [concurrency |-> conc, attempts |-> att]

\* new DistributedQueue(scraperConfig, queueConfig)
QInit(configs) ==
    /\ jobs = <<>>
    /\ queueConfig \in configs
    /\ worker = FALSE
    /\ nextSeq = 1

\* the components modelled after the queue, as constructed
MoreInit ==
    /\ metrics = [totalRequests |-> 0, successfulRequests |-> 0, failedRequests |-> 0]
    /\ load = [w \in 1..Max(NumTasks, NumLoaders) |->
                [session |-> 0, outcomes |-> <<>>, pushed |-> <<>>, updates |-> <<>>,
                 bypassSuccess |-> FALSE]]
    /\ requestLogs = <<>> /\ detectionLogs = <<>>
    /\ alerts = <<>> /\ handlers = <<>> /\ invoked = <<>>
    /\ logged = [requests |-> 0, detections |-> 0, alerts |-> 0]
    /\ fingerprint = [generated |-> FALSE]
    /\ residential = [constructed |-> FALSE]

\* the components modelled after the proxies, unused
RestIdle == QInit({QueueConfig(1, 1)}) /\ MoreInit

\* the other components, unused
ExtIdle == CLInit /\ PXInit({<<>>}, {DEFAULT_ROTATION_INTERVAL}) /\ RestIdle

SMInit(n, limits) ==
    /\ maxSessions \in limits
    /\ sessions = <<>>
    /\ closedBrowsers = {}
    /\ nextId = 1
    /\ spc = [w \in 1..n |-> "idle"]
    /\ op = [w \in 1..n |-> "none"]
    /\ mine = [w \in 1..n |-> 0]
    /\ victim = [w \in 1..n |-> 0]
    /\ attempt = [w \in 1..n |-> 0]

\* caller c goes to sleep(ms) inside waitForSlot
Sleep(c, u, id, ms, why, cleaned) ==
    /\ requests' = cleaned
    /\ pc' = [pc EXCEPT ![c] = "waiting"]
    /\ url' = [url EXCEPT ![c] = u]
    /\ requestId' = [requestId EXCEPT ![c] = id]
    /\ timer' = [timer EXCEPT ![c] = ms]
    /\ backedOff' = [backedOff EXCEPT ![c] = backedOff[c] \/ why = "backoff"]
    /\ UNCHANGED <<concurrentRequests, admitted>>

\* one pass of the `while (true)` loop of waitForSlot, up to its await or return
LoopPass(c, u, id) ==
    LET cleaned == cleanOldRequests(requests)
        limits  == checkLimits(cleaned)
    IN  /\ IF isInBackoff
             THEN Sleep(c, u, id, getBackoffRemaining, "backoff", cleaned)
           ELSE IF Len(concurrentRequests) >= config.maxConcurrent
             THEN Sleep(c, u, id, SLEEP_CONCURRENT, "concurrent", cleaned)
           ELSE IF limits.canProceed
             THEN /\ requests' = Append(cleaned, 0)
                  /\ concurrentRequests' = setAdd(concurrentRequests, id)
                  /\ admitted' = Append(admitted, 0)
                  /\ pc' = [pc EXCEPT ![c] = "holding"]
                  /\ url' = [url EXCEPT ![c] = u]
                  /\ requestId' = [requestId EXCEPT ![c] = <<>>]
                  /\ timer' = [timer EXCEPT ![c] = 0]
                  /\ UNCHANGED backedOff
           ELSE Sleep(c, u, id, limits.waitTime, "window", cleaned)
        /\ UNCHANGED <<config, backoffTime, sinceBackoff, stamp, triggers>>
        /\ UNCHANGED <<smVars, extVars>>

\* RateLimiter.waitForSlot(u) is called: the code up to its first await or return
WaitForSlot(c, u) ==
    /\ pc[c] = "idle"
    /\ LoopPass(c, u, makeRequestId(u, stamp))

\* the sleep() of caller c has resolved: the next pass of its loop
Resume(c) ==
    /\ pc[c] = "waiting"
    /\ timer[c] = 0
    /\ LoopPass(c, url[c], requestId[c])

\* RateLimiter.releaseSlot(url), called by a holder with the url it acquired
ReleaseSlot(c) ==
    /\ pc[c] = "holding"
    /\ concurrentRequests' = releaseSlot(concurrentRequests, url[c])
    /\ pc' = [pc EXCEPT ![c] = "idle"]
    /\ url' = [url EXCEPT ![c] = <<>>]
    /\ backedOff' = [backedOff EXCEPT ![c] = FALSE]
    /\ UNCHANGED <<config, requests, backoffTime, sinceBackoff, stamp, requestId,
                   timer, admitted, triggers>>
    /\ UNCHANGED <<smVars, extVars>>

\* RateLimiter.triggerBackoff
TriggerBackoff ==
    /\ triggers < MaxTriggers
    /\ backoffTime' = nextBackoffTime(backoffTime)
    /\ sinceBackoff' = 0
    /\ triggers' = triggers + 1
    /\ UNCHANGED <<config, requests, concurrentRequests, stamp, pc, url, requestId,
                   timer, backedOff, admitted>>
    /\ UNCHANGED <<smVars, extVars>>

\* RateLimiter.resetBackoff
ResetBackoff ==
    /\ backoffTime' = 0
    /\ sinceBackoff' = sinceCap
    /\ UNCHANGED <<config, requests, concurrentRequests, stamp, pc, url, requestId,
                   timer, backedOff, admitted, triggers>>
    /\ UNCHANGED <<smVars, extVars>>

\* Date.now() moves on to the next millisecond within the same tick
Millisecond ==
    /\ stamp' = freshStamp
    /\ UNCHANGED <<config, requests, concurrentRequests, backoffTime, sinceBackoff,
                   pc, url, requestId, timer, backedOff, admitted, triggers>>
    /\ UNCHANGED <<smVars, extVars>>

\* one tick of time passes
Tick ==
    /\ requests' = [i \in 1..Len(requests) |-> Min(requests[i] + 1, WINDOW_HOUR)]
    /\ admitted' =
         LET aged == [i \in 1..Len(admitted) |-> admitted[i] + 1]
             recent(age) == age < WINDOW_HOUR
         IN  SelectSeq(aged, recent)
    /\ sinceBackoff' = Min(sinceBackoff + 1, sinceCap)
    /\ timer' = [c \in Callers |-> Max(timer[c] - 1, 0)]
    /\ stamp' = freshStamp
    /\ UNCHANGED <<config, concurrentRequests, backoffTime, pc, url, requestId,
                   backedOff, triggers>>
    /\ UNCHANGED <<smVars, extVars>>

\* the limiter with its backoff, one slot
Init == RLInit(NumCallers, BackoffConfigs) /\ SMInit(0, {DEFAULT_MAX_SESSIONS}) /\ ExtIdle /\ BindInit(0, FALSE)

Next ==
    \/ \E c \in Callers, u \in Urls : WaitForSlot(c, u)
    \/ \E c \in Callers : Resume(c)
    \/ \E c \in Callers : ReleaseSlot(c)
    \/ TriggerBackoff
    \/ ResetBackoff
    \/ Millisecond
    \/ Tick

Spec == Init /\ [][Next]_vars

\* the windows and the concurrent limit, no server-side rate limiting
InitWindows == RLInit(NumCallers, WindowConfigs) /\ SMInit(0, {DEFAULT_MAX_SESSIONS}) /\ ExtIdle /\ BindInit(0, FALSE)

NextWindows ==
    \/ \E c \in Callers, u \in Urls : WaitForSlot(c, u)
    \/ \E c \in Callers : Resume(c)
    \/ \E c \in Callers : ReleaseSlot(c)
    \/ Millisecond
    \/ Tick

SpecWindows == InitWindows /\ [][NextWindows]_vars

\* one caller more than the concurrent limit, all on the same URL
InitCrowd == RLInit(NumCallers + 1, CrowdConfigs) /\ SMInit(0, {DEFAULT_MAX_SESSIONS}) /\ ExtIdle /\ BindInit(0, FALSE)

NextCrowd ==
    \/ \E c \in Callers : WaitForSlot(c, <<"h">>)
    \/ \E c \in Callers : Resume(c)
    \/ \E c \in Callers : ReleaseSlot(c)
    \/ Millisecond
    \/ Tick

SpecCrowd == InitCrowd /\ [][NextCrowd]_vars

\* the limiter under the scheduling the event loop gives: time advances, a
\* timer that is due fires, and (the callers' duty) a holder releases
InitLive == RLInit(NumCallers, LiveConfigs) /\ SMInit(0, {DEFAULT_MAX_SESSIONS}) /\ ExtIdle /\ BindInit(0, FALSE)

Fairness ==
    /\ WF_vars(Tick)
    /\ \A c \in 1..NumCallers : WF_vars(Resume(c))
    /\ \A c \in 1..NumCallers : WF_vars(ReleaseSlot(c))

NextLive ==
    \/ \E c \in Callers : WaitForSlot(c, <<"h">>)
    \/ \E c \in Callers : Resume(c)
    \/ \E c \in Callers : ReleaseSlot(c)
    \/ TriggerBackoff
    \/ ResetBackoff
    \/ Millisecond
    \/ Tick

SpecLive == InitLive /\ [][NextLive]_vars /\ Fairness

\* a reset() that leaves the backoff as it is
ResetCounters ==
    /\ requests' = <<>>
    /\ concurrentRequests' = <<>>
    /\ admitted' = <<>>
    /\ UNCHANGED <<config, backoffTime, sinceBackoff, stamp, pc, url, requestId, timer,
                   backedOff, triggers>>
    /\ UNCHANGED <<smVars, extVars>>

\* RateLimiter.reset; the history of admissions starts afresh
Reset ==
    /\ requests' = <<>>
    /\ concurrentRequests' = <<>>
    /\ backoffTime' = 0
    /\ sinceBackoff' = sinceCap
    /\ admitted' = <<>>
    /\ UNCHANGED <<config, stamp, pc, url, requestId, timer, backedOff, triggers>>
    /\ UNCHANGED <<smVars, extVars>>

\* one slot, server-side rate limiting, and reset() called at any time
SpecReset == InitLive /\ [][NextLive \/ Reset]_vars

\* ------------------------------------------------------------------------
\* ProxyManager
\* ------------------------------------------------------------------------
Hosts == {"a", "b", "c"}

\* rate / 10 as a successRate
tenths(rate) == (rate * Scale) \div 10

\* the pool of the unit tests; pools with proxies that have no successRate,
\* a successRate of 0 or of 1; the empty pool
TestPool == <<Proxy("a", tenths(9)), Proxy("b", tenths(7)), Proxy("c", tenths(8))>>

Pools ==
    { <<>>,
      TestPool,
      <<Proxy("a", Undefined), Proxy("b", tenths(3))>>,
      <<Proxy("a", 0), Proxy("b", tenths(10))>>,
      <<Proxy("a", tenths(2)), Proxy("b", Undefined)>> }

\* `successRate || d`
rateOr(rate, d) == IF rate = Undefined \/ rate = 0 THEN d ELSE rate

\* this.proxies.findIndex(p => p.host === proxy.host && p.port === proxy.port),
\* counted from 1; 0 for -1
RECURSIVE findIndexFrom(_, _, _)
findIndexFrom(pool, h, i) ==
    IF i > Len(pool) THEN 0
    ELSE IF pool[i].host = h THEN i
    ELSE findIndexFrom(pool, h, i + 1)

findIndex(pool, h) == findIndexFrom(pool, h, 1)

\* ProxyManager.removeProxy
removeProxy(pool, h) ==
    LET keep(q) == ~(q.host = h)
    IN  SelectSeq(pool, keep)

\* the moving average without the decay of a failure
newRateNoDecay(currentRate, success) ==
    IF success THEN (currentRate * 9) \div 10 + Scale \div 10
    ELSE currentRate

\* the exponential moving average of updateProxyStats
newRate(currentRate, success) ==
    IF success THEN (currentRate * 9) \div 10 + Scale \div 10
    ELSE (currentRate * 9) \div 10

\* newRate < 0.2
tooLow(rate) == rate < Scale \div 5

\* ProxyManager.updateProxyStats on the pool
updateProxyStats(pool, h, success) ==
    LET index == findIndex(pool, h)
        rate == newRate(rateOr(pool[index].successRate, Scale \div 2), success)
        set == [pool EXCEPT ![index].successRate = rate, ![index].updated = TRUE]
    IN  IF index = 0 THEN pool
        ELSE IF tooLow(rate) THEN removeProxy(set, h)
        ELSE set

\* the proxies with `successRate !== undefined`, by position
withRate(pool) == { i \in 1..Len(pool) : pool[i].successRate # Undefined }

\* proxiesWithRate.reduce((prev, current) =>
\*   (prev.successRate || 0) > (current.successRate || 0) ? prev : current)
\* over the positions from i on, prev being position best
RECURSIVE reduceBest(_, _, _)
reduceBest(pool, best, i) ==
    IF i > Len(pool) THEN best
    ELSE IF i \notin withRate(pool) THEN reduceBest(pool, best, i + 1)
    ELSE IF best = 0 THEN reduceBest(pool, i, i + 1)
    ELSE IF rateOr(pool[best].successRate, 0) > rateOr(pool[i].successRate, 0)
      THEN reduceBest(pool, best, i + 1)
      ELSE reduceBest(pool, i, i + 1)

\* the positions getBestProxy may return: the result of the reduce, or any
\* position (getRandomProxy) when no proxy has a successRate
bestChoices(pool) ==
    IF withRate(pool) = {} THEN 1..Len(pool) ELSE { reduceBest(pool, 0, 1) }

\* currentIndex after getNextProxy
nextIndex(index, len, due) == IF due THEN (index + 1) % len ELSE index

\* proxy.lastUsed = Date.now()
stampAt(pool, i) == [pool EXCEPT ![i].lastUsed = 0]

\* the host of the latest getNextProxy() result, forgotten once no proxy of
\* the pool has it
stillPooled(h, pool) ==
    IF \E i \in 1..Len(pool) : pool[i].host = h THEN h ELSE "none"

\* ProxyManager.getNextProxy
GetNextProxy ==
    LET due == sinceRotation >= rotationInterval
        index == nextIndex(currentIndex, Len(proxies), due)
        log == [Call("getNextProxy") EXCEPT !.due = due,
                   !.indexBefore = currentIndex, !.previous = lastNext]
    IN  IF proxies = <<>>
          THEN /\ lastCall' = [Call("getNextProxy") EXCEPT !.result = "null",
                                  !.indexBefore = currentIndex, !.previous = lastNext]
               /\ lastNext' = "null"
               /\ UNCHANGED <<proxies, currentIndex, rotationInterval, sinceRotation,
                              changes>>
          ELSE /\ currentIndex' = index
               /\ sinceRotation' = IF due THEN 0 ELSE sinceRotation
               /\ IF index < Len(proxies)
                    THEN /\ proxies' = stampAt(proxies, index + 1)
                         /\ lastCall' = [log EXCEPT !.result = proxies[index + 1].host]
                         /\ lastNext' = proxies[index + 1].host
                    ELSE /\ lastCall' = [log EXCEPT !.result = "undefined"]
                         /\ lastNext' = "undefined"
                         /\ UNCHANGED proxies
               /\ UNCHANGED <<rotationInterval, changes>>

\* ProxyManager.getBestProxy
GetBestProxy ==
    /\ IF proxies = <<>>
         THEN /\ lastCall' = [Call("getBestProxy") EXCEPT !.result = "null"]
              /\ UNCHANGED proxies
         ELSE \E i \in bestChoices(proxies) :
                /\ proxies' = stampAt(proxies, i)
                /\ lastCall' = [Call("getBestProxy") EXCEPT !.result = proxies[i].host,
                                   !.after = proxies[i].successRate]
    /\ UNCHANGED <<currentIndex, rotationInterval, sinceRotation, changes, lastNext>>

\* ProxyManager.addProxy
AddProxy(h, rate) ==
    /\ Len(proxies) < MaxPool
    /\ proxies' = Append(proxies, Proxy(h, rate))
    /\ changes' = changes + 1
    /\ lastCall' = [Call("addProxy") EXCEPT !.host = h]
    /\ UNCHANGED <<currentIndex, rotationInterval, sinceRotation, lastNext>>

\* ProxyManager.removeProxy
RemoveProxy(h) ==
    /\ proxies' = removeProxy(proxies, h)
    /\ changes' = changes + 1
    /\ lastCall' = [Call("removeProxy") EXCEPT !.host = h]
    /\ lastNext' = stillPooled(lastNext, proxies')
    /\ UNCHANGED <<currentIndex, rotationInterval, sinceRotation>>

\* ProxyManager.updateProxyStats
UpdateProxyStats(h, success) ==
    LET index == findIndex(proxies, h)
    IN  /\ proxies' = updateProxyStats(proxies, h, success)
        /\ changes' = changes + 1
        /\ lastCall' =
             IF index = 0
               THEN [Call("updateProxyStats") EXCEPT !.host = h, !.ok = success]
               ELSE [Call("updateProxyStats") EXCEPT !.host = h, !.ok = success,
                       !.found = TRUE,
                       !.before = proxies[index].successRate,
                       !.after = newRate(rateOr(proxies[index].successRate,
                                                Scale \div 2), success),
                       !.removed = (Len(proxies') < Len(proxies))]
        /\ lastNext' = stillPooled(lastNext, proxies')
        /\ UNCHANGED <<currentIndex, rotationInterval, sinceRotation>>

\* Date.now() moves on
PoolTick ==
    /\ sinceRotation' = Min(sinceRotation + 1, rotationInterval)
    /\ proxies' = [i \in 1..Len(proxies) |->
                     [proxies[i] EXCEPT !.lastUsed =
                        IF @ = Undefined THEN @ ELSE Min(@ + 1, 1)]]
    /\ lastCall' = Call("none")
    /\ UNCHANGED <<currentIndex, rotationInterval, changes, lastNext>>

\* a ProxyManager and its callers
InitPool ==
    /\ RLInit(0, LiveConfigs) /\ SMInit(0, {DEFAULT_MAX_SESSIONS}) /\ CLInit
    /\ BindInit(0, FALSE) /\ RestIdle
    /\ PXInit(Pools, {2})

NextPool ==
    \/ GetNextProxy /\ UNCHANGED <<rlVars, restVars, smVars, clVars, bindVars>>
    \/ GetBestProxy /\ UNCHANGED <<rlVars, restVars, smVars, clVars, bindVars>>
    \/ \E h \in Hosts, rate \in {Undefined, tenths(5)} :
         /\ changes < MaxChanges
         /\ AddProxy(h, rate)
         /\ UNCHANGED <<rlVars, restVars, smVars, clVars, bindVars>>
    \/ \E h \in Hosts :
         /\ changes < MaxChanges
         /\ RemoveProxy(h)
         /\ UNCHANGED <<rlVars, restVars, smVars, clVars, bindVars>>
    \/ \E h \in Hosts, success \in BOOLEAN :
         /\ changes < MaxChanges
         /\ UpdateProxyStats(h, success)
         /\ UNCHANGED <<rlVars, restVars, smVars, clVars, bindVars>>
    \/ PoolTick /\ UNCHANGED <<rlVars, restVars, smVars, clVars, bindVars>>

SpecPool == InitPool /\ [][NextPool]_vars

\* the pool of the unit tests, whose proxies only fail
InitDrain ==
    /\ RLInit(0, LiveConfigs) /\ SMInit(0, {DEFAULT_MAX_SESSIONS}) /\ CLInit
    /\ BindInit(0, FALSE) /\ RestIdle
    /\ PXInit({TestPool}, {DEFAULT_ROTATION_INTERVAL})

NextDrain ==
    \E h \in Hosts :
        /\ changes < MaxDrain
        /\ UpdateProxyStats(h, FALSE)
        /\ UNCHANGED <<rlVars, restVars, smVars, clVars, bindVars>>

SpecDrain == InitDrain /\ [][NextDrain]_vars

\* ------------------------------------------------------------------------
\* SessionManager
\* ------------------------------------------------------------------------
\* Array.from(this.sessions.keys())
sessionIds == { sessions[i].id : i \in 1..Len(sessions) }

\* this.sessions.delete(id)
deleteSession(map, id) ==
    LET keep(e) == e.id # id
    IN  SelectSeq(map, keep)

\* this.sessions.set(id, session) with startTime: Date.now()
setSession(map, id) == Append(map, [id |-> id, age |-> 0])

\* the loop of SessionManager.cleanupOldestSession from entry i on:
\* `session.startTime < oldestTime` is `age > bestAge`
RECURSIVE findOldest(_, _, _)
findOldest(i, bestAge, bestId) ==
    IF i > Len(sessions) THEN bestId
    ELSE IF sessions[i].age > bestAge
      THEN findOldest(i + 1, sessions[i].age, sessions[i].id)
      ELSE findOldest(i + 1, bestAge, bestId)

\* oldestSession of cleanupOldestSession (0: null); oldestTime starts at Date.now()
oldestSession == findOldest(1, 0, 0)

\* where a client stands once its createSession has returned
afterCreate(o) ==
    IF o \in {"createSession", "rotateSession"} THEN "using" ELSE "page"

\* where a client stands once its closeSession has returned
afterClose(o, at) ==
    IF at = "closingAfterError" THEN "threw"
    ELSE IF o = "closeSession" THEN "idle"
    ELSE IF o = "rotateSession" THEN "rotating"
    ELSE "returned"

\* options.useProxy of the createSession call of an operation: true in
\* rotateSession and executeTask, the caller's choice elsewhere
useProxyOptions(o) ==
    IF o \in {"rotateSession", "executeTask"} THEN {TRUE} ELSE BOOLEAN

\* createSession determines the proxy of the session: getBestProxy() when
\* options.useProxy is set and there is a ProxyManager, null otherwise
bindProxy(w, o) ==
    \E useProxy \in useProxyOptions(o) :
        IF useProxy /\ proxyEnabled
          THEN /\ GetBestProxy
               /\ proxyOf' = [proxyOf EXCEPT ![w] = lastCall'.result]
          ELSE /\ proxyOf' = [proxyOf EXCEPT ![w] = "null"]
               /\ UNCHANGED pxVars

\* createSession up to its first await: the session limit check and the
\* search of cleanupOldestSession; closeSession(oldest) then awaits. Without
\* an eviction it goes on to determine the proxy and to launch the browser
createStart(w, o) ==
    /\ nextId <= MaxCreated
    /\ IF Len(sessions) >= maxSessions /\ oldestSession # 0
         THEN /\ spc' = [spc EXCEPT ![w] = "evicting"]
              /\ victim' = [victim EXCEPT ![w] = oldestSession]
              /\ UNCHANGED <<pxVars, proxyOf>>
         ELSE /\ spc' = [spc EXCEPT ![w] = "launching"]
              /\ bindProxy(w, o)
              /\ UNCHANGED victim
    /\ UNCHANGED <<maxSessions, sessions, closedBrowsers, nextId, mine>>

\* closeSession(mine[w]) up to its first await, or its early return
closeStart(w, o, at) ==
    /\ spc' = [spc EXCEPT ![w] =
                 IF mine[w] \in sessionIds THEN at ELSE afterClose(o, at)]
    /\ UNCHANGED <<maxSessions, sessions, closedBrowsers, nextId, mine, victim>>

\* SessionManager.createSession is called
CreateSession(w) ==
    /\ spc[w] = "idle"
    /\ op' = [op EXCEPT ![w] = "createSession"]
    /\ createStart(w, "createSession")
    /\ UNCHANGED <<attempt, rlVars, restVars, clVars, proxyEnabled, rotated>>

\* the closeSession awaited by cleanupOldestSession has closed the browser
\* and deleted the session; createSession goes on to determine the proxy and
\* to launch the browser
EvictDone(w) ==
    /\ spc[w] = "evicting"
    /\ sessions' = deleteSession(sessions, victim[w])
    /\ closedBrowsers' = closedBrowsers \cup {victim[w]}
    /\ spc' = [spc EXCEPT ![w] = "launching"]
    /\ victim' = [victim EXCEPT ![w] = 0]
    /\ bindProxy(w, op[w])
    /\ UNCHANGED <<maxSessions, nextId, op, mine, attempt, rlVars, restVars, clVars,
                   proxyEnabled, rotated>>

\* the browser and its context are up: createSession registers the session
\* and returns it
Launched(w) ==
    /\ spc[w] = "launching"
    /\ sessions' = setSession(sessions, nextId)
    /\ mine' = [mine EXCEPT ![w] = nextId]
    /\ nextId' = nextId + 1
    /\ spc' = [spc EXCEPT ![w] = afterCreate(op[w])]
    /\ UNCHANGED <<maxSessions, closedBrowsers, op, victim, attempt, rlVars, extVars>>

\* chromium.launch, newContext or the fingerprint setup throws: createSession
\* rejects before it has registered anything
LaunchFails(w) ==
    /\ spc[w] = "launching"
    /\ spc' = [spc EXCEPT ![w] = IF afterCreate(op[w]) = "using" THEN "idle" ELSE "threw"]
    /\ mine' = [mine EXCEPT ![w] = 0]
    /\ UNCHANGED <<maxSessions, sessions, closedBrowsers, nextId, op, victim,
                   attempt, rlVars, extVars>>

\* SessionManager.closeSession is called by the owner of a session
CloseSession(w) ==
    /\ spc[w] = "using"
    /\ op' = [op EXCEPT ![w] = "closeSession"]
    /\ closeStart(w, "closeSession", "closing")
    /\ rotated' = [rotated EXCEPT ![w] = [id |-> 0, proxy |-> "null"]]
    /\ UNCHANGED <<attempt, rlVars, restVars, clVars, pxVars, proxyEnabled, proxyOf>>

\* closeSession has closed pages, context and browser and deletes the session
Closed(w) ==
    /\ spc[w] \in {"closing", "closingAfterError"}
    /\ sessions' = deleteSession(sessions, mine[w])
    /\ closedBrowsers' = closedBrowsers \cup {mine[w]}
    /\ spc' = [spc EXCEPT ![w] = afterClose(op[w], spc[w])]
    /\ UNCHANGED <<maxSessions, nextId, op, mine, victim, attempt, rlVars, extVars>>

\* SessionManager.rotateSession is called by the owner of a session
RotateSession(w) ==
    /\ spc[w] = "using"
    /\ op' = [op EXCEPT ![w] = "rotateSession"]
    /\ closeStart(w, "rotateSession", "closing")
    /\ rotated' = [rotated EXCEPT ![w] = [id |-> mine[w], proxy |-> proxyOf[w]]]
    /\ UNCHANGED <<attempt, rlVars, restVars, clVars, pxVars, proxyEnabled, proxyOf>>

\* rotateSession goes on to createSession once its closeSession has returned
RotateCreate(w) ==
    /\ spc[w] = "rotating"
    /\ createStart(w, op[w])
    /\ UNCHANGED <<op, attempt, rlVars, restVars, clVars, proxyEnabled, rotated>>

\* Date.now() moves on
SMTick ==
    /\ sessions' = [i \in 1..Len(sessions) |->
                      [sessions[i] EXCEPT !.age = Min(@ + 1, MaxAge)]]
    /\ UNCHANGED <<maxSessions, closedBrowsers, nextId, spc, op, mine, victim,
                   attempt, rlVars, extVars>>

\* the SessionManager used directly by concurrent clients
InitSessions == RLInit(0, LiveConfigs) /\ SMInit(NumClients, {1, 2}) /\ ExtIdle /\ BindInit(NumClients, FALSE)

NextSessions ==
    \/ \E w \in Clients : CreateSession(w)
    \/ \E w \in Clients : EvictDone(w)
    \/ \E w \in Clients : Launched(w)
    \/ \E w \in Clients : LaunchFails(w)
    \/ \E w \in Clients : CloseSession(w)
    \/ \E w \in Clients : Closed(w)
    \/ \E w \in Clients : RotateSession(w)
    \/ \E w \in Clients : RotateCreate(w)
    \/ SMTick

SpecSessions == InitSessions /\ [][NextSessions]_vars

\* SessionManager.addDetection for the session of its owner: a session with
\* a proxy reports a block or captcha as a failure of the proxy, any other
\* detection as a success
AddDetection(w, isBlocked) ==
    /\ spc[w] = "using"
    /\ mine[w] \in sessionIds
    /\ proxyOf[w] \in Hosts
    /\ proxyEnabled
    /\ UpdateProxyStats(proxyOf[w], ~isBlocked)
    /\ UNCHANGED <<rlVars, restVars, smVars, clVars, bindVars>>

\* a SessionManager with a ProxyManager, whose clients create, rotate and
\* close sessions and report detections
InitRotate ==
    /\ RLInit(0, LiveConfigs) /\ SMInit(NumTasks, {DEFAULT_MAX_SESSIONS}) /\ CLInit
    /\ PXInit({TestPool}, {DEFAULT_ROTATION_INTERVAL})
    /\ BindInit(NumTasks, TRUE) /\ RestIdle

NextRotate ==
    \/ \E w \in Clients : CreateSession(w)
    \/ \E w \in Clients : Launched(w)
    \/ \E w \in Clients : LaunchFails(w)
    \/ \E w \in Clients : CloseSession(w)
    \/ \E w \in Clients : Closed(w)
    \/ \E w \in Clients : RotateSession(w)
    \/ \E w \in Clients : RotateCreate(w)
    \/ \E w \in Clients, isBlocked \in BOOLEAN :
         changes < MaxChanges /\ AddDetection(w, isBlocked)

SpecRotate == InitRotate /\ [][NextRotate]_vars

\* ------------------------------------------------------------------------
\* StealthScraper
\* ------------------------------------------------------------------------
\* StealthScraper.executeTask is called
ExecuteTask(w) ==
    /\ spc[w] = "idle"
    /\ op' = [op EXCEPT ![w] = "executeTask"]
    /\ createStart(w, "executeTask")
    /\ UNCHANGED <<attempt, rlVars, restVars, clVars, proxyEnabled, rotated>>

\* StealthScraper.testSecurity is called with options.attempts = n
TestSecurity(w, n) ==
    /\ spc[w] = "idle"
    /\ op' = [op EXCEPT ![w] = "testSecurity"]
    /\ attempt' = [attempt EXCEPT ![w] = n]
    /\ createStart(w, "testSecurity")
    /\ UNCHANGED <<rlVars, restVars, clVars, proxyEnabled, rotated>>

\* one of the parallel async functions of StealthScraper.stressTest starts,
\* with options.requestsPerSession = n
StressSession(w, n) ==
    /\ spc[w] = "idle"
    /\ op' = [op EXCEPT ![w] = "stressTest"]
    /\ attempt' = [attempt EXCEPT ![w] = n]
    /\ createStart(w, "stressTest")
    /\ UNCHANGED <<rlVars, restVars, clVars, proxyEnabled, rotated>>

\* SessionManager.createPage returns a page
CreatePage(w) ==
    /\ spc[w] = "page"
    /\ mine[w] \in sessionIds
    /\ spc' = [spc EXCEPT ![w] = "try"]
    /\ UNCHANGED <<maxSessions, sessions, closedBrowsers, nextId, op, mine, victim,
                   attempt, rlVars, extVars>>

\* SessionManager.createPage throws (session not found, or newPage /
\* applyToPage fails): in all three operations the call is outside any try
CreatePageThrows(w) ==
    /\ spc[w] = "page"
    /\ spc' = [spc EXCEPT ![w] = "threw"]
    /\ UNCHANGED <<maxSessions, sessions, closedBrowsers, nextId, op, mine, victim,
                   attempt, rlVars, extVars>>

\* executeTask: the try block completes; `finally` calls closeSession
TaskDone(w) ==
    /\ spc[w] = "try"
    /\ op[w] = "executeTask"
    /\ closeStart(w, op[w], "closing")
    /\ UNCHANGED <<op, attempt, rlVars, extVars>>

\* executeTask: the try block throws (navigation, detection analysis, an
\* action, an extractor); `catch` rethrows and `finally` calls closeSession
TaskThrows(w) ==
    /\ spc[w] = "try"
    /\ op[w] = "executeTask"
    /\ closeStart(w, op[w], "closingAfterError")
    /\ UNCHANGED <<op, attempt, rlVars, extVars>>

\* testSecurity / stressTest: one pass of the loop ends, by the end of the
\* try block or through the catch block
AttemptDone(w) ==
    /\ spc[w] = "try"
    /\ op[w] \in {"testSecurity", "stressTest"}
    /\ attempt' = [attempt EXCEPT ![w] = @ - 1]
    /\ spc' = [spc EXCEPT ![w] = IF attempt[w] - 1 > 0 THEN "page" ELSE "loopEnd"]
    /\ UNCHANGED <<maxSessions, sessions, closedBrowsers, nextId, op, mine, victim,
                   rlVars, extVars>>

\* testSecurity / stressTest: `await page.close()` inside the catch block throws
CatchThrows(w) ==
    /\ spc[w] = "try"
    /\ op[w] \in {"testSecurity", "stressTest"}
    /\ spc' = [spc EXCEPT ![w] = "threw"]
    /\ UNCHANGED <<maxSessions, sessions, closedBrowsers, nextId, op, mine, victim,
                   attempt, rlVars, extVars>>

\* after the loop: testSecurity has its report generated, stressTest has
\* nothing left to do; then closeSession is called
LoopDone(w) ==
    /\ spc[w] = "loopEnd"
    /\ closeStart(w, op[w], "closing")
    /\ UNCHANGED <<op, attempt, rlVars, extVars>>

\* testSecurity: vulnerabilityReporter.generateReport throws
ReportThrows(w) ==
    /\ spc[w] = "loopEnd"
    /\ op[w] = "testSecurity"
    /\ spc' = [spc EXCEPT ![w] = "threw"]
    /\ UNCHANGED <<maxSessions, sessions, closedBrowsers, nextId, op, mine, victim,
                   attempt, rlVars, extVars>>

\* the client is done with the outcome of its operation
Finished(w) ==
    /\ spc[w] \in {"returned", "threw"}
    /\ spc' = [spc EXCEPT ![w] = "idle"]
    /\ op' = [op EXCEPT ![w] = "none"]
    /\ mine' = [mine EXCEPT ![w] = 0]
    /\ attempt' = [attempt EXCEPT ![w] = 0]
    /\ UNCHANGED <<maxSessions, sessions, closedBrowsers, nextId, victim, rlVars, extVars>>

\* the scraper, whose SessionManager is built with the default maxSessions:
\* fewer than maxSessions sessions are ever registered within MaxCreated, so
\* cleanupOldestSession, the only reader of startTime, has nothing to do
InitScraper == RLInit(0, LiveConfigs) /\ SMInit(NumTasks, {DEFAULT_MAX_SESSIONS}) /\ ExtIdle /\ BindInit(NumTasks, FALSE)

NextScraper ==
    \/ \E w \in Clients : ExecuteTask(w)
    \/ \E w \in Clients, n \in 1..MaxAttempts : TestSecurity(w, n)
    \/ \E w \in Clients, n \in 1..MaxAttempts : StressSession(w, n)
    \/ \E w \in Clients : Launched(w)
    \/ \E w \in Clients : LaunchFails(w)
    \/ \E w \in Clients : CreatePage(w)
    \/ \E w \in Clients : CreatePageThrows(w)
    \/ \E w \in Clients : TaskDone(w)
    \/ \E w \in Clients : TaskThrows(w)
    \/ \E w \in Clients : AttemptDone(w)
    \/ \E w \in Clients : CatchThrows(w)
    \/ \E w \in Clients : LoopDone(w)
    \/ \E w \in Clients : ReportThrows(w)
    \/ \E w \in Clients : Closed(w)
    \/ \E w \in Clients : Finished(w)

SpecScraper == InitScraper /\ [][NextScraper]_vars

\* ------------------------------------------------------------------------
\* StealthScraper: the page load of executeTask and testSecurity
\* ------------------------------------------------------------------------
\* updateProxyStats(session.proxy, !isBlocked), called by addDetection for one
\* detection after the other; oks are the `!isBlocked` of the detections
RECURSIVE addDetections(_, _, _)
addDetections(pool, h, oks) ==
    IF oks = <<>> THEN pool
    ELSE addDetections(updateProxyStats(pool, h, Head(oks)), h, Tail(oks))

\* a `hasBlocks` that looks for blocks only, in both operations
hasBlocksOnly(o, ds) ==
    \E i \in 1..Len(ds) : ds[i] = "block"

\* `hasBlocks` of operation o for the detections ds
hasBlocks(o, ds) ==
    \E i \in 1..Len(ds) : ds[i] = "block" \/ (o = "testSecurity" /\ ds[i] = "captcha")

\* a testSecurity that replaces its session by a new one after each pass
leaveTryFresh(w, failed) ==
    IF op[w] = "executeTask"
      THEN /\ closeStart(w, op[w], IF failed THEN "closingAfterError" ELSE "closing")
           /\ UNCHANGED attempt
      ELSE /\ attempt' = [attempt EXCEPT ![w] = @ - 1]
           /\ spc' = [spc EXCEPT ![w] = IF attempt[w] - 1 > 0 THEN "page" ELSE "loopEnd"]
           /\ sessions' = setSession(deleteSession(sessions, mine[w]), nextId)
           /\ closedBrowsers' = closedBrowsers \cup {mine[w]}
           /\ mine' = [mine EXCEPT ![w] = nextId]
           /\ nextId' = nextId + 1
           /\ UNCHANGED <<maxSessions, victim>>

\* the try block is left: executeTask goes through `finally` to closeSession
\* (after `catch` has rethrown, if failed); testSecurity closes the page and
\* goes to the next pass of its loop
leaveTry(w, failed) ==
    IF op[w] = "executeTask"
      THEN /\ closeStart(w, op[w], IF failed THEN "closingAfterError" ELSE "closing")
           /\ UNCHANGED attempt
      ELSE /\ attempt' = [attempt EXCEPT ![w] = @ - 1]
           /\ spc' = [spc EXCEPT ![w] = IF attempt[w] - 1 > 0 THEN "page" ELSE "loopEnd"]
           /\ UNCHANGED <<maxSessions, sessions, closedBrowsers, nextId, mine, victim>>

\* page.goto resolves, or rejects
Navigate(w, resolves) ==
    LET now == IF load[w].session = mine[w] THEN load[w]
               ELSE [load[w] EXCEPT !.session = mine[w], !.outcomes = <<>>,
                                    !.bypassSuccess = FALSE]
        begun == [now EXCEPT !.pushed = <<>>, !.updates = <<>>]
    IN  /\ spc[w] = "try"
        /\ op[w] \in {"executeTask", "testSecurity"}
        /\ metrics' =
             IF op[w] # "executeTask" THEN metrics
             ELSE IF resolves THEN [metrics EXCEPT !.totalRequests = @ + 1]
             ELSE [metrics EXCEPT !.failedRequests = @ + 1]
        /\ load' = [load EXCEPT ![w] =
                      IF resolves THEN begun
                      ELSE [begun EXCEPT !.outcomes =
                              Append(@, [error |-> TRUE, detections |-> <<>>])]]
        /\ IF resolves
             THEN /\ spc' = [spc EXCEPT ![w] = "loaded"]
                  /\ UNCHANGED <<maxSessions, sessions, closedBrowsers, nextId, mine,
                                 victim, attempt>>
             ELSE leaveTry(w, TRUE)
        /\ UNCHANGED <<op, rlVars, clVars, pxVars, bindVars, qVars, requestLogs,
                       detectionLogs, alerts, handlers, invoked, logged,
                       fingerprint, residential>>

\* the rest of the try block, after page.goto has resolved: "analysis" when
\* the response is null or waitForPageLoad, the behavior simulation or
\* analyzePage throws; otherwise analyzePage returns the detections ds, each
\* is passed to addDetection (and counted, in executeTask), and then either
\* an action, an extractor or the screenshot of executeTask throws ("action")
\* or the try block runs to its end ("ok")
Analyze(w, ds, outcome) ==
    LET recorded == outcome # "analysis" /\ mine[w] \in sessionIds
        oks == IF recorded /\ proxyEnabled /\ proxyOf[w] \in Hosts
                 THEN [i \in 1..Len(ds) |-> ds[i] \notin {"block", "captcha"}]
                 ELSE <<>>
    IN  /\ spc[w] = "loaded"
        /\ outcome = "analysis" => ds = <<>>
        /\ outcome = "action" => op[w] = "executeTask"
        /\ metrics' =
             IF op[w] # "executeTask" THEN metrics
             ELSE IF outcome = "ok" THEN [metrics EXCEPT !.successfulRequests = @ + 1]
             ELSE [metrics EXCEPT !.failedRequests = @ + 1]
        /\ load' = [load EXCEPT ![w] =
                      [@ EXCEPT !.outcomes =
                                  Append(@, [error |-> outcome # "ok", detections |-> ds]),
                                !.pushed = IF recorded THEN ds ELSE <<>>,
                                !.updates = oks,
                                !.bypassSuccess =
                                  \/ @
                                  \/ /\ op[w] = "testSecurity"
                                     /\ outcome = "ok"
                                     /\ ~hasBlocks(op[w], ds)]]
        /\ proxies' = addDetections(proxies, proxyOf[w], oks)
        /\ changes' = changes + Len(oks)
        /\ lastNext' = stillPooled(lastNext, proxies')
        /\ leaveTry(w, outcome # "ok")
        /\ UNCHANGED <<currentIndex, rotationInterval, sinceRotation, lastCall, op,
                       rlVars, clVars, bindVars, qVars, requestLogs, detectionLogs,
                       alerts, handlers, invoked, logged,
                       fingerprint, residential>>

\* a StealthScraper with proxies, whose clients call executeTask and
\* testSecurity
InitTask ==
    /\ RLInit(0, LiveConfigs) /\ SMInit(NumLoaders, {DEFAULT_MAX_SESSIONS}) /\ CLInit
    /\ PXInit({TestPool}, {DEFAULT_ROTATION_INTERVAL})
    /\ BindInit(NumLoaders, TRUE) /\ RestIdle

NextTask ==
    \/ \E w \in Clients : nextId <= MaxScrapes /\ ExecuteTask(w)
    \/ \E w \in Clients, n \in 1..MaxAttempts :
         nextId <= MaxScrapes /\ TestSecurity(w, n)
    \/ \E w \in Clients : Launched(w)
    \/ \E w \in Clients : LaunchFails(w)
    \/ \E w \in Clients : CreatePage(w)
    \/ \E w \in Clients : CreatePageThrows(w)
    \/ \E w \in Clients, resolves \in BOOLEAN : Navigate(w, resolves)
    \/ \E w \in Clients, outcome \in {"ok", "analysis", "action"} :
         \E ds \in UNION { [1..n -> {"block", "captcha", "challenge"}] :
                           n \in 0..MaxDetections } :
             changes + Len(ds) <= MaxChanges /\ Analyze(w, ds, outcome)
    \/ \E w \in Clients : CatchThrows(w)
    \/ \E w \in Clients : LoopDone(w)
    \/ \E w \in Clients : ReportThrows(w)
    \/ \E w \in Clients : Closed(w)
    \/ \E w \in Clients : Finished(w)

SpecTask == InitTask /\ [][NextTask]_vars

\* ------------------------------------------------------------------------
\* MonitoringSystem and AlertingSystem
\* ------------------------------------------------------------------------
\* a slice that keeps the first n elements
sliceFirst(seq, n) ==
    IF n = 0 \/ n >= Len(seq) THEN seq ELSE SubSeq(seq, 1, n)

\* Array.prototype.slice(-n): the last n elements; all of them when n is 0
\* (-0 is 0) or not below the length
sliceLast(seq, n) ==
    IF n = 0 \/ n >= Len(seq) THEN seq ELSE SubSeq(seq, Len(seq) - n + 1, Len(seq))

\* MonitoringSystem.logRequest
LogRequest ==
    /\ requestLogs' =
         LET pushed == Append(requestLogs, logged.requests + 1)
         IN  IF Len(pushed) > MAX_HISTORY_SIZE
               THEN sliceLast(pushed, MAX_HISTORY_SIZE) ELSE pushed
    /\ logged' = [logged EXCEPT !.requests = @ + 1]
    /\ UNCHANGED <<detectionLogs, alerts, handlers, invoked, metrics, load, qVars,
                   rlVars, smVars, clVars, pxVars, bindVars,
                   fingerprint, residential>>

\* MonitoringSystem.logDetection
LogDetection ==
    /\ detectionLogs' =
         LET pushed == Append(detectionLogs, logged.detections + 1)
         IN  IF Len(pushed) > MAX_DETECTIONS_KEPT
               THEN sliceLast(pushed, MAX_DETECTIONS_KEPT) ELSE pushed
    /\ logged' = [logged EXCEPT !.detections = @ + 1]
    /\ UNCHANGED <<requestLogs, alerts, handlers, invoked, metrics, load, qVars,
                   rlVars, smVars, clVars, pxVars, bindVars,
                   fingerprint, residential>>

\* AlertingSystem.onAlert(name, handler)
OnAlert(name) ==
    /\ handlers' = IF \E i \in 1..Len(handlers) : handlers[i] = name
                     THEN handlers ELSE Append(handlers, name)
    /\ UNCHANGED <<requestLogs, detectionLogs, alerts, invoked, logged, metrics, load,
                   qVars, rlVars, smVars, clVars, pxVars, bindVars,
                   fingerprint, residential>>

\* AlertingSystem.alert; the n-th handler is the first one that throws (0: no
\* handler throws), which ends handlers.forEach and the call
Alert(n) ==
    /\ n <= Len(handlers)
    /\ alerts' = Append(alerts, logged.alerts + 1)
    /\ logged' = [logged EXCEPT !.alerts = @ + 1]
    /\ invoked' = IF n = 0 THEN handlers ELSE SubSeq(handlers, 1, n)
    /\ UNCHANGED <<requestLogs, detectionLogs, handlers, metrics, load, qVars,
                   rlVars, smVars, clVars, pxVars, bindVars,
                   fingerprint, residential>>

\* a MonitoringSystem and an AlertingSystem in use
NextMon ==
    \/ logged.requests < MaxLogged /\ LogRequest
    \/ logged.detections < MaxLogged /\ LogDetection
    \/ \E name \in {"console", "pager"} : OnAlert(name)
    \/ \E n \in 0..2 : logged.alerts < MaxLogged /\ Alert(n)

SpecMon == InitScraper /\ [][NextMon]_vars

\* ------------------------------------------------------------------------
\* FingerprintGenerator
\* ------------------------------------------------------------------------
\* the platform records; every pool is cut down to its first entries, the
\* strings are shortened, and what two records share in the source they share
\* here: the vendor, the plugins, the font Arial, the first screen resolution
\* of Win32 and Linux.  The largest core counts 12 < 16 < 32 are scaled to
\* 5 < 6 < 8 above the common minimum 4.
platformProfiles ==
    << [platform |-> "Win32",
        userAgents |-> <<"Windows NT 10.0 Chrome/120", "Windows NT 10.0 Chrome/119">>,
        vendor |-> "Google Inc.",
        fonts |-> <<"Arial", "Calibri">>,
        plugins |-> <<"PDF Viewer", "Chrome PDF Viewer", "Chromium PDF Viewer">>,
        webglRenderers |->
            <<[vendor |-> "Google Inc. (NVIDIA)", renderer |-> "ANGLE RTX 3060"],
              [vendor |-> "Google Inc. (Intel)", renderer |-> "ANGLE UHD Graphics 630"]>>,
        hardwareConcurrency |-> [min |-> 4, max |-> 6],
        deviceMemory |-> <<4, 8>>,
        screenResolutions |-> <<[width |-> 1920, height |-> 1080],
                                [width |-> 1366, height |-> 768]>>],
       [platform |-> "MacIntel",
        userAgents |-> <<"Mac OS X 10_15_7 Chrome/120", "Mac OS X 10_15_7 Chrome/119">>,
        vendor |-> "Google Inc.",
        fonts |-> <<"American Typewriter", "Arial">>,
        plugins |-> <<"PDF Viewer", "Chrome PDF Viewer", "Chromium PDF Viewer">>,
        webglRenderers |->
            <<[vendor |-> "Intel Inc.", renderer |-> "Iris Plus Graphics 640"],
              [vendor |-> "Apple Inc.", renderer |-> "Apple M1"]>>,
        hardwareConcurrency |-> [min |-> 4, max |-> 5],
        deviceMemory |-> <<8, 16>>,
        screenResolutions |-> <<[width |-> 1440, height |-> 900],
                                [width |-> 1680, height |-> 1050]>>],
       [platform |-> "Linux x86_64",
        userAgents |-> <<"X11 Linux x86_64 Chrome/120", "X11 Linux x86_64 Chrome/119">>,
        vendor |-> "Google Inc.",
        fonts |-> <<"Arial", "DejaVu Sans">>,
        plugins |-> <<"PDF Viewer", "Chrome PDF Viewer", "Chromium PDF Viewer">>,
        webglRenderers |->
            <<[vendor |-> "Intel", renderer |-> "Mesa UHD Graphics 630"],
              [vendor |-> "NVIDIA Corporation", renderer |-> "GeForce GTX 1660 Ti"]>>,
        hardwareConcurrency |-> [min |-> 4, max |-> 8],
        deviceMemory |-> <<4, 8>>,
        screenResolutions |-> <<[width |-> 1920, height |-> 1080],
                                [width |-> 1366, height |-> 768]>>] >>

\* FingerprintGenerator.generateFontList: the lists platformFonts.filter can
\* return, Math.random() deciding for each font whether it stays
generateFontList(fpConfig, platformFonts) ==
    IF fpConfig.randomizeFonts
      THEN { [i \in 1..Cardinality(keep) |->
                platformFonts[CHOOSE k \in keep :
                                Cardinality({j \in keep : j < k}) = i - 1]] :
             keep \in SUBSET (1..Len(platformFonts)) }
      ELSE {platformFonts}

\* FingerprintGenerator.generatePluginList: the lists it can return, the
\* random comparator of sort leaving any order and removeCount being 0, 1 or 2
generatePluginList(fpConfig, platformPlugins) ==
    IF fpConfig.spoofPlugins
      THEN LET n == Len(platformPlugins)
               orders == {o \in [1..n -> 1..n] : \A i, j \in 1..n : o[i] = o[j] => i = j}
           IN  { [i \in 1..(n - removeCount) |-> platformPlugins[o[i]]] :
                 o \in orders, removeCount \in 0..2 }
      ELSE {platformPlugins}

\* an identity whose user agent is a Windows one whatever the platform
generateWindowsAgent(fpConfig) ==
    LET randomElement(array) == {array[i] : i \in 1..Len(array)}
        profiles == IF fpConfig.spoofPlatform
                      THEN randomElement(platformProfiles) ELSE {platformProfiles[1]}
    IN  UNION { { [userAgent |-> userAgent, viewport |-> viewport,
                   platform |-> platformProfile.platform,
                   vendor |-> platformProfile.vendor, fonts |-> fonts,
                   hardwareConcurrency |-> hardwareConcurrency,
                   deviceMemory |-> deviceMemory, plugins |-> plugins,
                   webglRenderer |-> webglRenderer] :
                  userAgent \in IF fpConfig.randomizeUserAgent
                                  THEN randomElement(platformProfiles[1].userAgents)
                                  ELSE {platformProfiles[1].userAgents[1]},
                  viewport \in IF fpConfig.randomizeViewport
                                 THEN randomElement(platformProfile.screenResolutions)
                                 ELSE {platformProfile.screenResolutions[1]},
                  hardwareConcurrency \in
                      IF fpConfig.spoofHardwareConcurrency
                        THEN platformProfile.hardwareConcurrency.min
                               ..platformProfile.hardwareConcurrency.max
                        ELSE {platformProfile.hardwareConcurrency.min},
                  deviceMemory \in IF fpConfig.spoofDeviceMemory
                                     THEN randomElement(platformProfile.deviceMemory)
                                     ELSE {platformProfile.deviceMemory[1]},
                  webglRenderer \in randomElement(platformProfile.webglRenderers),
                  fonts \in IF fpConfig.randomizeFonts
                              THEN generateFontList(fpConfig, platformProfile.fonts)
                              ELSE {platformProfile.fonts},
                  plugins \in IF fpConfig.spoofPlugins
                                THEN generatePluginList(fpConfig, platformProfile.plugins)
                                ELSE {platformProfile.plugins} } :
                platformProfile \in profiles }

\* FingerprintGenerator.generate: the identities it can return under a config.
\* randomElement(array) is any element, randomInt(min, max) any integer of
\* min..max.  language, timezone and the canvas, WebGL and audio seeds are
\* drawn from no platform record and are left out.
generate(fpConfig) ==
    LET randomElement(array) == {array[i] : i \in 1..Len(array)}
        profiles == IF fpConfig.spoofPlatform
                      THEN randomElement(platformProfiles) ELSE {platformProfiles[1]}
    IN  UNION { { [userAgent |-> userAgent, viewport |-> viewport,
                   platform |-> platformProfile.platform,
                   vendor |-> platformProfile.vendor, fonts |-> fonts,
                   hardwareConcurrency |-> hardwareConcurrency,
                   deviceMemory |-> deviceMemory, plugins |-> plugins,
                   webglRenderer |-> webglRenderer] :
                  userAgent \in IF fpConfig.randomizeUserAgent
                                  THEN randomElement(platformProfile.userAgents)
                                  ELSE {platformProfile.userAgents[1]},
                  viewport \in IF fpConfig.randomizeViewport
                                 THEN randomElement(platformProfile.screenResolutions)
                                 ELSE {platformProfile.screenResolutions[1]},
                  hardwareConcurrency \in
                      IF fpConfig.spoofHardwareConcurrency
                        THEN platformProfile.hardwareConcurrency.min
                               ..platformProfile.hardwareConcurrency.max
                        ELSE {platformProfile.hardwareConcurrency.min},
                  deviceMemory \in IF fpConfig.spoofDeviceMemory
                                     THEN randomElement(platformProfile.deviceMemory)
                                     ELSE {platformProfile.deviceMemory[1]},
                  webglRenderer \in randomElement(platformProfile.webglRenderers),
                  fonts \in IF fpConfig.randomizeFonts
                              THEN generateFontList(fpConfig, platformProfile.fonts)
                              ELSE {platformProfile.fonts},
                  plugins \in IF fpConfig.spoofPlugins
                                THEN generatePluginList(fpConfig, platformProfile.plugins)
                                ELSE {platformProfile.plugins} } :
                platformProfile \in profiles }

\* new FingerprintGenerator(config).generate(), as SessionManager.createSession
\* calls it for the one identity of a session
Generate(fpConfig) ==
    /\ ~fingerprint.generated
    /\ \E identity \in generate(fpConfig) :
         fingerprint' = [generated |-> TRUE, config |-> fpConfig, identity |-> identity]
    /\ UNCHANGED <<metrics, load, requestLogs, detectionLogs, alerts, handlers, invoked,
                   logged, residential, qVars, rlVars, smVars, clVars, pxVars, bindVars>>

\* a FingerprintGenerator under every combination of the flags generate() reads
SpecFingerprint ==
    InitScraper /\ [][\E fpConfig \in [spoofPlatform : BOOLEAN, randomizeUserAgent : BOOLEAN,
                                     randomizeViewport : BOOLEAN,
                                     spoofHardwareConcurrency : BOOLEAN,
                                     spoofDeviceMemory : BOOLEAN,
                                     randomizeFonts : BOOLEAN, spoofPlugins : BOOLEAN] :
                       Generate(fpConfig)]_vars

\* ------------------------------------------------------------------------
\* ResidentialProxyManager
\* ------------------------------------------------------------------------
\* Provider sessions are numbered in the order generateSessionId makes their
\* ids (a millisecond stamp and 11 random characters, taken to be fresh);
\* currentSession 0 is null.  sessionAge is the minutes since sessionStartTime,
\* saturating at MaxMinutes.  A sessionDuration of 0 is one that is not given.

\* ResidentialProxyManager.shouldRotateSession
shouldRotateSession(manager) ==
    IF ~manager.config.sessionPersistence THEN TRUE
    ELSE IF manager.currentSession = 0 THEN TRUE
    ELSE IF manager.config.sessionDuration # 0
            /\ manager.sessionAge >= manager.config.sessionDuration THEN TRUE
    ELSE IF manager.config.rotateOnFailure
            /\ LET count == manager.failureCount[manager.currentSession]
                   failures == IF count = Undefined THEN 0 ELSE count
               IN  failures >= orDefault(manager.config.maxFailuresPerProxy,
                                         DEFAULT_MAX_FAILURES) THEN TRUE
    ELSE FALSE

\* new ResidentialProxyManager(given): the keys of the argument replace the
\* defaults; provider.sessionDuration is kept next to them
NewResidentialProxyManager(given, sessionDuration) ==
    /\ ~residential.constructed
    /\ residential' =
         [constructed |-> TRUE,
          config |-> (given @@ [sessionPersistence |-> TRUE, rotateOnFailure |-> TRUE,
                                maxFailuresPerProxy |-> DEFAULT_MAX_FAILURES])
                       @@ [sessionDuration |-> sessionDuration],
          currentSession |-> 0,
          sessionAge |-> MaxMinutes,
          failureCount |-> [id \in 1..MaxIssued |-> Undefined],
          issued |-> 0,
          sinceSuccess |-> 0]
    /\ UNCHANGED <<metrics, load, requestLogs, detectionLogs, alerts, handlers, invoked,
                   logged, fingerprint, qVars, rlVars, smVars, clVars, pxVars, bindVars>>

\* ResidentialProxyManager.getProxy
GetProxy ==
    /\ residential.constructed
    /\ residential' =
         IF shouldRotateSession(residential) \/ residential.currentSession = 0
           THEN [residential EXCEPT !.currentSession = residential.issued + 1,
                                    !.sessionAge = 0,
                                    !.issued = @ + 1,
                                    !.sinceSuccess = 0]
           ELSE residential
    /\ UNCHANGED <<metrics, load, requestLogs, detectionLogs, alerts, handlers, invoked,
                   logged, fingerprint, qVars, rlVars, smVars, clVars, pxVars, bindVars>>

\* a recordSuccess that leaves the failure count as it is
RecordSuccessOnly ==
    /\ residential.constructed
    /\ residential' =
         IF residential.currentSession = 0 THEN residential
         ELSE [residential EXCEPT !.sinceSuccess = 0]
    /\ UNCHANGED <<metrics, load, requestLogs, detectionLogs, alerts, handlers, invoked,
                   logged, fingerprint, qVars, rlVars, smVars, clVars, pxVars, bindVars>>

\* ResidentialProxyManager.recordSuccess
RecordSuccess ==
    /\ residential.constructed
    /\ residential' =
         IF residential.currentSession = 0 THEN residential
         ELSE [residential EXCEPT !.failureCount[residential.currentSession] = 0,
                                  !.sinceSuccess = 0]
    /\ UNCHANGED <<metrics, load, requestLogs, detectionLogs, alerts, handlers, invoked,
                   logged, fingerprint, qVars, rlVars, smVars, clVars, pxVars, bindVars>>

\* ResidentialProxyManager.recordFailure
RecordFailure ==
    /\ residential.constructed
    /\ residential' =
         IF residential.currentSession = 0 THEN residential
         ELSE [residential EXCEPT !.failureCount[residential.currentSession] =
                                      (IF @ = Undefined THEN 0 ELSE @) + 1,
                                  !.sinceSuccess = @ + 1]
    /\ UNCHANGED <<metrics, load, requestLogs, detectionLogs, alerts, handlers, invoked,
                   logged, fingerprint, qVars, rlVars, smVars, clVars, pxVars, bindVars>>

\* ResidentialProxyManager.rotate; with sessionStartTime 0 the age is far
\* beyond every duration
ForceRotate ==
    /\ residential.constructed
    /\ residential' = [residential EXCEPT !.currentSession = 0,
                                          !.sessionAge = MaxMinutes]
    /\ UNCHANGED <<metrics, load, requestLogs, detectionLogs, alerts, handlers, invoked,
                   logged, fingerprint, qVars, rlVars, smVars, clVars, pxVars, bindVars>>

\* a minute passes
MinutePasses ==
    /\ residential.constructed
    /\ residential.sessionAge < MaxMinutes
    /\ residential' = [residential EXCEPT !.sessionAge = @ + 1]
    /\ UNCHANGED <<metrics, load, requestLogs, detectionLogs, alerts, handlers, invoked,
                   logged, fingerprint, qVars, rlVars, smVars, clVars, pxVars, bindVars>>

\* a ResidentialProxyManager constructed with any of the three optional keys
\* given or left out, in use
SpecResidential ==
    InitScraper
    /\ [][\/ \E keys \in SUBSET {"sessionPersistence", "rotateOnFailure",
                                 "maxFailuresPerProxy"},
             all \in [sessionPersistence : BOOLEAN, rotateOnFailure : BOOLEAN,
                      maxFailuresPerProxy : 0..2],
             sessionDuration \in 0..MaxMinutes :
               NewResidentialProxyManager([key \in keys |-> all[key]], sessionDuration)
          \/ residential.constructed /\ residential.issued < MaxIssued /\ GetProxy
          \/ RecordSuccess
          \/ residential.constructed /\ residential.sinceSuccess < MaxFailures
               /\ RecordFailure
          \/ ForceRotate
          \/ MinutePasses]_vars

\* ------------------------------------------------------------------------
\* StealthScraper.cleanup
\* ------------------------------------------------------------------------
\* cleanup() is called: closeAllSessions takes the keys of the map and starts
\* a closeSession for each, every one finding its session
Cleanup ==
    /\ cleanupPc \in {"idle", "done"}
    /\ cleanupPc' = "closing"
    /\ cleanupIds' = sessionIds
    /\ UNCHANGED <<rlVars, restVars, smVars, pxVars, bindVars>>

\* one closeSession of closeAllSessions has closed pages, context and browser
\* and deletes its session
CleanupClosed(id) ==
    /\ cleanupPc = "closing"
    /\ id \in cleanupIds
    /\ sessions' = deleteSession(sessions, id)
    /\ closedBrowsers' = closedBrowsers \cup {id}
    /\ cleanupIds' = cleanupIds \ {id}
    /\ UNCHANGED <<cleanupPc, maxSessions, nextId, spc, op, mine, victim, attempt,
                   rlVars, restVars, pxVars, bindVars>>

\* Promise.all of closeAllSessions resolves, and with it cleanup()
CleanupResolved ==
    /\ cleanupPc = "closing"
    /\ cleanupIds = {}
    /\ cleanupPc' = "done"
    /\ UNCHANGED <<cleanupIds, rlVars, restVars, smVars, pxVars, bindVars>>

\* cleanup() next to the users of the scraper's SessionManager; no
\* createSession is called once cleanup() has been called
InitCleanup ==
    RLInit(0, LiveConfigs) /\ SMInit(NumTasks, {DEFAULT_MAX_SESSIONS}) /\ ExtIdle /\ BindInit(NumTasks, FALSE)

NextCleanup ==
    \/ \E w \in Clients : cleanupPc = "idle" /\ CreateSession(w)
    \/ \E w \in Clients : Launched(w)
    \/ \E w \in Clients : LaunchFails(w)
    \/ \E w \in Clients : CloseSession(w)
    \/ \E w \in Clients : Closed(w)
    \/ Cleanup
    \/ \E id \in 1..MaxCreated : CleanupClosed(id)
    \/ CleanupResolved

SpecCleanup == InitCleanup /\ [][NextCleanup]_vars

\* ------------------------------------------------------------------------
\* DistributedQueue
\* ------------------------------------------------------------------------
\* a job as queue.add creates it: ready to run, or delayed
Job(name, priority, delayed, seq) ==
    [name |-> name, priority |-> priority,
     state |-> IF delayed THEN "delayed" ELSE "waiting",
     seq |-> IF delayed THEN 0 ELSE seq,
     pc |-> "none", attemptsMade |-> 0, progress |-> <<>>]

\* the jobs BullMQ may hand to a worker
waitingJobs == { j \in 1..Len(jobs) : jobs[j].state = "waiting" }

\* the job BullMQ hands out next: BullMQ serves the lowest priority number
\* first and, within one priority, the job that became ready first
isNextJob(j) ==
    /\ j \in waitingJobs
    /\ \A k \in waitingJobs :
         \/ jobs[j].priority < jobs[k].priority
         \/ jobs[j].priority = jobs[k].priority /\ jobs[j].seq <= jobs[k].seq

activeJobs == { j \in 1..Len(jobs) : jobs[j].state = "active" }

\* queue.add / queue.addBulk of the jobs `added`, which are not delayed
addJobs(added) ==
    /\ Len(jobs) + Len(added) <= MaxJobs
    /\ jobs' = jobs \o [i \in 1..Len(added) |->
                         Job(added[i].name, added[i].priority, FALSE, nextSeq + i - 1)]
    /\ nextSeq' = nextSeq + Len(added)
    /\ UNCHANGED <<queueConfig, worker, rlVars, smVars, clVars, pxVars, bindVars,
                   moreVars>>

\* DistributedQueue.addTask, options.priority = o, task.priority = t (0: not
\* given), with or without options.delay
AddTask(o, t, delayed) ==
    /\ Len(jobs) < MaxJobs
    /\ jobs' = Append(jobs, Job("scrape", orDefault(o, orDefault(t, DEFAULT_TASK_PRIORITY)),
                                delayed, nextSeq))
    /\ nextSeq' = IF delayed THEN nextSeq ELSE nextSeq + 1
    /\ UNCHANGED <<queueConfig, worker, rlVars, smVars, clVars, pxVars, bindVars,
                   moreVars>>

\* DistributedQueue.addBulkTasks, options.priority = o, of the tasks whose
\* priorities are ts
AddBulkTasks(o, ts) ==
    addJobs([i \in 1..Len(ts) |->
               [name |-> "scrape",
                priority |-> orDefault(o, orDefault(ts[i], DEFAULT_TASK_PRIORITY))]])

\* DistributedQueue.addSecurityTest, options.priority = o
AddSecurityTest(o) ==
    addJobs(<<[name |-> "security-test",
               priority |-> orDefault(o, DEFAULT_SECURITY_PRIORITY)]>>)

\* DistributedQueue.startWorker
StartWorker ==
    /\ worker' = TRUE
    /\ UNCHANGED <<jobs, queueConfig, nextSeq, rlVars, smVars, clVars, pxVars, bindVars,
                   moreVars>>

\* the delay of a job is over (options.delay, or the backoff of a retry)
Promote(j) ==
    /\ jobs[j].state = "delayed"
    /\ jobs' = [jobs EXCEPT ![j].state = "waiting", ![j].seq = nextSeq]
    /\ nextSeq' = nextSeq + 1
    /\ UNCHANGED <<queueConfig, worker, rlVars, smVars, clVars, pxVars, bindVars,
                   moreVars>>

\* the worker takes the next job and calls the processor with it
Take(j) ==
    /\ worker
    /\ Cardinality(activeJobs) < queueConfig.concurrency
    /\ isNextJob(j)
    /\ jobs' = [jobs EXCEPT ![j].state = "active", ![j].pc = "start",
                            ![j].attemptsMade = @ + 1, ![j].progress = <<>>]
    /\ UNCHANGED <<queueConfig, worker, nextSeq, rlVars, smVars, clVars, pxVars,
                   bindVars, moreVars>>

\* a processor that reports 50 once the task has run
milestoneHalf(at) ==
    IF at = "start" THEN 10 ELSE IF at = "ran" THEN 50 ELSE 100

\* the percentage of the job.updateProgress call the processor makes at pc
milestone(at) ==
    IF at = "start" THEN 10 ELSE IF at = "ran" THEN 90 ELSE 100

\* where the processor stands after the job.updateProgress call it makes at pc
afterProgress(at) ==
    IF at = "start" THEN "run" ELSE IF at = "ran" THEN "reported" ELSE "cleanup"

\* the processor calls job.updateProgress
UpdateProgress(j) ==
    /\ jobs[j].state = "active"
    /\ jobs[j].pc \in {"start", "ran", "reported"}
    /\ jobs' = [jobs EXCEPT ![j].progress = Append(@, milestone(jobs[j].pc)),
                            ![j].pc = afterProgress(jobs[j].pc)]
    /\ UNCHANGED <<queueConfig, worker, nextSeq, rlVars, smVars, clVars, pxVars,
                   bindVars, moreVars>>

\* scraper.executeTask / scraper.testSecurity returns, or throws
RunTask(j, throws) ==
    /\ jobs[j].state = "active"
    /\ jobs[j].pc = "run"
    /\ jobs' = [jobs EXCEPT ![j].pc = IF throws THEN "catch" ELSE "ran"]
    /\ UNCHANGED <<queueConfig, worker, nextSeq, rlVars, smVars, clVars, pxVars,
                   bindVars, moreVars>>

\* scraper.cleanup() is done: the processor returns the result, or rethrows
\* and BullMQ retries the job after its backoff while it has attempts left
Settle(j) ==
    /\ jobs[j].state = "active"
    /\ jobs[j].pc \in {"cleanup", "catch"}
    /\ jobs' = [jobs EXCEPT ![j].pc = "none",
                  ![j].state =
                     IF jobs[j].pc = "cleanup" THEN "completed"
                     ELSE IF jobs[j].attemptsMade < queueConfig.attempts THEN "delayed"
                     ELSE "failed"]
    /\ UNCHANGED <<queueConfig, worker, nextSeq, rlVars, smVars, clVars, pxVars,
                   bindVars, moreVars>>

\* a DistributedQueue, its producers and its worker
InitQueue ==
    /\ RLInit(0, LiveConfigs) /\ SMInit(0, {DEFAULT_MAX_SESSIONS}) /\ CLInit
    /\ PXInit({<<>>}, {DEFAULT_ROTATION_INTERVAL}) /\ BindInit(0, FALSE)
    /\ QInit({QueueConfig(1, 2)}) /\ MoreInit

NextQueue ==
    \/ \E o \in 0..MaxPriority, t \in 0..MaxPriority, delayed \in BOOLEAN :
         AddTask(o, t, delayed)
    \/ \E o \in 0..MaxPriority, t1 \in 0..MaxPriority, t2 \in 0..MaxPriority :
         AddBulkTasks(o, <<t1, t2>>)
    \/ \E o \in 0..MaxPriority : AddSecurityTest(o)
    \/ StartWorker
    \/ \E j \in 1..Len(jobs) : Promote(j)
    \/ \E j \in 1..Len(jobs) : Take(j)
    \/ \E j \in 1..Len(jobs) : UpdateProgress(j)
    \/ \E j \in 1..Len(jobs), throws \in BOOLEAN : RunTask(j, throws)
    \/ \E j \in 1..Len(jobs) : Settle(j)

SpecQueue == InitQueue /\ [][NextQueue]_vars

\* ------------------------------------------------------------------------
\* RateLimiter: properties
\* ------------------------------------------------------------------------
holders == { c \in Callers : pc[c] = "holding" }

\* a step in which waitForSlot returns to caller c
Admits(c) == pc[c] # "holding" /\ pc'[c] = "holding"

\* C1: at every instant the admissions of the trailing second, minute and
\* hour number at most maxRequestsPerSecond, maxRequestsPerMinute and
\* maxRequestsPerHour; every sliding window ends at some instant, so no
\* window of these lengths ever holds more admissions than its limit.
C1_WindowLimits ==
    /\ countWithin(admitted, WINDOW_SECOND) <= config.maxRequestsPerSecond
    /\ countWithin(admitted, WINDOW_MINUTE) <= config.maxRequestsPerMinute
    /\ countWithin(admitted, WINDOW_HOUR) <= config.maxRequestsPerHour

\* a caller has just been put to sleep by the hour limit alone while the
\* hour window is full
C1_Witness ==
    \E c \in Callers :
        /\ pc[c] = "waiting"
        /\ timer[c] = WAIT_HOUR
        /\ countWithin(admitted, WINDOW_HOUR) = config.maxRequestsPerHour
        /\ countWithin(admitted, WINDOW_MINUTE) < config.maxRequestsPerMinute
        /\ countWithin(admitted, WINDOW_SECOND) < config.maxRequestsPerSecond

\* C2: the callers that returned from waitForSlot and have not released
\* never number more than maxConcurrent.
C2_ConcurrentLimit == Cardinality(holders) <= config.maxConcurrent

C4_BackoffAtMostMax == backoffTime <= config.backoffMax

\* the delay the documented rule gives
documentedBackoff(current) ==
    Min(Max(current * config.backoffMultiplier, BACKOFF_INITIAL), config.backoffMax)

\* C5: every triggerBackoff() sets the delay to
\* min(max(delay * multiplier, initial), backoffMax), and a further trigger
\* gives a strictly greater delay until backoffMax is reached.
C5_BackoffRule ==
    [][triggers' = triggers + 1 =>
          /\ backoffTime' = documentedBackoff(backoffTime)
          /\ (backoffTime # 0 /\ backoffTime < config.backoffMax
                => backoffTime' > backoffTime)]_vars

\* C6: getStats().concurrentRequests is the number of admitted calls not
\* yet released.
C6_InflightCount == Len(concurrentRequests) = Cardinality(holders)

\* a step in which waitForSlot is called
CallStep == \E c \in Callers : pc[c] = "idle" /\ pc'[c] # "idle"

\* C7 as stated: every caller blocked inside waitForSlot eventually returns.
C7_EveryCallerReturns ==
    \A c \in 1..NumCallers : (pc[c] = "waiting") ~> (pc[c] = "holding")

\* C7 amended: every caller blocked inside waitForSlot eventually returns,
\* provided only finitely many waitForSlot calls are made.
C7_ReturnsIfCallsCease ==
    <>[][~CallStep]_vars =>
        \A c \in 1..NumCallers : (pc[c] = "waiting") ~> (pc[c] = "holding")

\* a caller that slept on a backoff has returned
C7_Witness ==
    \E c \in Callers : pc[c] = "holding" /\ backedOff[c]

\* ------------------------------------------------------------------------
\* SessionManager and StealthScraper: properties
\* ------------------------------------------------------------------------
\* C8: the number of sessions registered in the SessionManager never
\* exceeds maxSessions.
C8_SessionLimit == Len(sessions) <= maxSessions

\* C9: createSession never closes a session its owner still uses: while the
\* owner has not called closeSession or rotateSession, the session stays
\* registered and its browser stays open.
C9_InUseSessionKept ==
    \A w \in Clients :
        spc[w] = "using" => mine[w] \in sessionIds /\ mine[w] \notin closedBrowsers

\* C10: when executeTask, testSecurity or a session of stressTest has returned
\* or thrown, the session it created is closed and no longer registered.
C10_SessionReleasedOnExit ==
    \A w \in Clients :
        spc[w] \in {"returned", "threw"} /\ mine[w] # 0 =>
            mine[w] \notin sessionIds /\ mine[w] \in closedBrowsers

\* C11: once cleanup() has resolved and the operations that were pending have
\* finished, the SessionManager holds no session.
C11_CleanupLeavesNoSession ==
    (cleanupPc = "done" /\ \A w \in Clients : spc[w] \in {"idle", "using"}) =>
        sessions = <<>>

\* the hosts of the proxies in the pool
poolHosts == { proxies[i].host : i \in 1..Len(proxies) }

\* C12: when rotateSession has returned, the session it was given is no
\* longer registered and its browser is closed, the session it returns has
\* another id, and its proxy is not the proxy of the closed session whenever
\* the pool has another proxy.
C12_RotateGivesNewProxy ==
    \A w \in Clients :
        (op[w] = "rotateSession" /\ spc[w] = "using") =>
            /\ rotated[w].id \notin sessionIds
            /\ rotated[w].id \in closedBrowsers
            /\ mine[w] # rotated[w].id
            /\ poolHosts \ {rotated[w].proxy} # {} => proxyOf[w] # rotated[w].proxy

\* ------------------------------------------------------------------------
\* ProxyManager: properties
\* ------------------------------------------------------------------------
\* C13: an update of a proxy with a score in [0,1] leaves the score in [0,1];
\* a success strictly increases it unless it is 1, a failure strictly
\* decreases it.
C13_ScoreMoves ==
    (lastCall.op = "updateProxyStats" /\ lastCall.found /\ lastCall.before \in 0..Scale) =>
        /\ lastCall.after \in 0..Scale
        /\ lastCall.ok => (lastCall.after > lastCall.before \/ lastCall.before = Scale)
        /\ ~lastCall.ok => lastCall.after < lastCall.before

\* score' = 0.9 * score + 0.1 * [ok], a proxy without a score counting 0.5
documentedRate(score, ok) ==
    ((IF score = Undefined THEN Scale \div 2 ELSE score) * 9) \div 10
        + (IF ok THEN Scale \div 10 ELSE 0)

\* C14: an update sets the score to 0.9 * score + 0.1 * [ok] and removes the
\* proxy exactly when the new score is below 0.2; no proxy that has received
\* an update is in the pool with a score below 0.2.
C14_UpdateRule ==
    /\ (lastCall.op = "updateProxyStats" /\ lastCall.found) =>
         /\ lastCall.after = documentedRate(lastCall.before, lastCall.ok)
         /\ lastCall.removed <=> lastCall.after < Scale \div 5
    /\ \A i \in 1..Len(proxies) :
         proxies[i].updated => proxies[i].successRate >= Scale \div 5

\* the score a proxy counts with: 0.5 when it was added without one
countedRate(rate) == IF rate = Undefined THEN Scale \div 2 ELSE rate

\* C16: getBestProxy() on a non-empty pool returns a proxy of the pool whose
\* score is at least the score of every proxy in the pool, a proxy without an
\* explicit score counting 0.5.
C16_BestIsMaximal ==
    (lastCall.op = "getBestProxy" /\ proxies # <<>>) =>
        /\ lastCall.result \in poolHosts
        /\ \A i \in 1..Len(proxies) :
             countedRate(lastCall.after) >= countedRate(proxies[i].successRate)

\* C17: getNextProxy() advances the pointer by one, wrapping around, and
\* resets lastRotation exactly when the rotation interval has passed;
\* otherwise it returns the proxy the previous call returned (as long as that
\* proxy has not been removed); the returned proxy's lastUsed is the current
\* time.
C17_RotationRule ==
    (lastCall.op = "getNextProxy" /\ proxies # <<>>) =>
        /\ lastCall.due =>
             /\ currentIndex = (lastCall.indexBefore + 1) % Len(proxies)
             /\ sinceRotation = 0
        /\ ~lastCall.due =>
             /\ currentIndex = lastCall.indexBefore
             /\ lastCall.previous \in Hosts => lastCall.result = lastCall.previous
        /\ lastCall.result \in poolHosts =>
             \E i \in 1..Len(proxies) :
                 proxies[i].host = lastCall.result /\ proxies[i].lastUsed = 0

\* C18: getNextProxy() returns a member of the pool whenever the pool is not
\* empty, and null only when it is empty.
C18_NextIsMember ==
    lastCall.op = "getNextProxy" =>
        IF proxies = <<>> THEN lastCall.result = "null"
        ELSE lastCall.result \in poolHosts

\* every update so far was an update of proxy "a"
onlyFirstUpdated ==
    /\ Len(removeProxy(proxies, "a")) = Len(TestPool) - 1
    /\ \A i \in 1..Len(proxies) : proxies[i].host # "a" => ~proxies[i].updated

\* C15, as claimed: after ten consecutive failures of the proxy with score
\* 0.9 in the pool 0.9, 0.7, 0.8 that proxy is removed and two are left.
C15_TenFailuresRemove ==
    (onlyFirstUpdated /\ changes = 10) =>
        ("a" \notin poolHosts /\ Len(proxies) = 2)

\* C15, amended: the proxy with score 0.9 is removed by its fifteenth
\* consecutive failure and by none before: three proxies are left after
\* fewer than fifteen failures, two from the fifteenth on.
C15_FifteenFailuresRemove ==
    onlyFirstUpdated =>
        /\ "a" \in poolHosts <=> changes < 15
        /\ Len(proxies) = IF changes < 15 THEN 3 ELSE 2

C15_Witness ==
    onlyFirstUpdated /\ changes = 15 /\ lastCall.removed /\ Len(proxies) = 2

\* ------------------------------------------------------------------------
\* DistributedQueue: properties
\* ------------------------------------------------------------------------
\* C19: whenever the worker takes a task, its priority number is at least that
\* of every other waiting task, and among the waiting tasks of its priority
\* it is the one that has been ready longest.
C19_PriorityOrder ==
    [][\A j \in 1..Len(jobs) :
         (jobs[j].state = "waiting" /\ jobs'[j].state = "active") =>
             \A k \in waitingJobs :
                 /\ jobs[j].priority >= jobs[k].priority
                 /\ jobs[j].priority = jobs[k].priority => jobs[j].seq <= jobs[k].seq]_vars

\* C20: a job that has completed has emitted the progress events 10, 50, 90
\* and 100, in that order and no others.
C20_ProgressMilestones ==
    \A j \in 1..Len(jobs) :
        jobs[j].state = "completed" => jobs[j].progress = <<10, 50, 90, 100>>

\* C20 (amended): a job that has completed has emitted the progress events
\* 10, 90 and 100, in that order and no others, and a job that has reported
\* 100 is one whose executeTask / testSecurity call has returned.
C20_MilestonesEmitted ==
    \A j \in 1..Len(jobs) :
        /\ jobs[j].state = "completed" => jobs[j].progress = <<10, 90, 100>>
        /\ (\E i \in 1..Len(jobs[j].progress) : jobs[j].progress[i] = 100) =>
               \/ jobs[j].state = "completed"
               \/ jobs[j].state = "active" /\ jobs[j].pc = "cleanup"

C20_Witness ==
    \E j \in 1..Len(jobs) : jobs[j].state = "completed" /\ jobs[j].attemptsMade = 2

\* ------------------------------------------------------------------------
\* StealthScraper page loads: properties
\* ------------------------------------------------------------------------
\* the outcome of the latest page load of client w
latest(w) == load[w].outcomes[Len(load[w].outcomes)]

\* some detection is of kind block or captcha
blocked(ds) == \E i \in 1..Len(ds) : ds[i] \in {"block", "captcha"}

\* client w is in, or has just left, an operation o whose session has had a
\* page load
loadedIn(w, o) ==
    op[w] = o /\ mine[w] # 0 /\ load[w].session = mine[w] /\ load[w].outcomes # <<>>

\* C21: a task whose page load was classified as blocked is not handed back
\* to the worker as done: executeTask does not return normally, and the rate
\* limiter's backoff has been triggered and the session rotated.
C21_BlockedTaskRetried ==
    \A w \in Clients :
        (/\ loadedIn(w, "executeTask")
         /\ spc[w] \in {"closing", "closingAfterError", "returned", "threw"}
         /\ ~latest(w).error
         /\ blocked(latest(w).detections))
        => /\ spc[w] \in {"closingAfterError", "threw"}
           /\ triggers > 0
           /\ rotated[w].id = mine[w]

C25_NewSessionEachAttempt ==
    \A w \in Clients :
        (op[w] = "testSecurity" /\ spc[w] = "loaded" /\ load[w].session = mine[w])
        => load[w].outcomes = <<>>

\* C25 (amended): at every step it takes from its first attempt to the end of
\* its loop, testSecurity keeps the session it created at the start and
\* creates no session.
C25_OneSessionForAllAttempts ==
    [][\A w \in Clients :
         (/\ op[w] = "testSecurity"
          /\ spc[w] \in {"page", "try", "loaded"}
          /\ spc'[w] \in {"page", "try", "loaded", "loopEnd"}
          /\ spc'[w] # spc[w])
         => /\ mine'[w] = mine[w]
            /\ mine[w] \in sessionIds'
            /\ nextId' = nextId]_vars

C25_Witness ==
    \E w \in Clients :
        /\ op[w] = "testSecurity" /\ spc[w] = "loaded"
        /\ load[w].session = mine[w] /\ Len(load[w].outcomes) = 1

\* C28: a page load on a session bound to a proxy pushes the detections found
\* onto the session record and makes exactly one updateProxyStats call, a
\* failure exactly when some detection is of kind block or captcha.
C28_OneUpdatePerLoad ==
    \A w \in Clients :
        (/\ load[w].session = mine[w] /\ mine[w] # 0 /\ load[w].outcomes # <<>>
         /\ spc[w] # "loaded"
         /\ ~latest(w).error
         /\ proxyOf[w] \in Hosts)
        => /\ load[w].pushed = latest(w).detections
           /\ load[w].updates = <<~blocked(latest(w).detections)>>

\* C30: whenever no executeTask call is between its page.goto and the end of
\* its try block, totalRequests = successfulRequests + failedRequests.
C30_RequestsAddUp ==
    (\A w \in Clients : spc[w] # "loaded")
    => metrics.totalRequests = metrics.successfulRequests + metrics.failedRequests

\* ------------------------------------------------------------------------
\* RateLimiter.reset: properties
\* ------------------------------------------------------------------------
\* C26: right after reset() getStats() reports no request in any window, no
\* concurrent request, no backoff and no backoff time remaining, and the next
\* triggerBackoff() sets the initial delay.
C26_ResetZeroesStats ==
    [][Reset =>
         /\ countWithin(requests', WINDOW_SECOND) = 0
         /\ countWithin(requests', WINDOW_MINUTE) = 0
         /\ countWithin(requests', WINDOW_HOUR) = 0
         /\ Len(concurrentRequests') = 0
         /\ ~isInBackoff'
         /\ getBackoffRemaining' = 0
         /\ nextBackoffTime(backoffTime') = BACKOFF_INITIAL]_vars

C26_Witness ==
    /\ requests = <<>>
    /\ concurrentRequests = <<>> /\ \E c \in Callers : pc[c] = "holding"
    /\ backoffTime = 0 /\ triggers > 0

\* ------------------------------------------------------------------------
\* MonitoringSystem and AlertingSystem: properties
\* ------------------------------------------------------------------------
\* the most recent n of the `made` logs made so far
mostRecent(made, n) == [i \in 1..Min(made, n) |-> made - Min(made, n) + i]

\* C22: the MonitoringSystem holds at most maxHistorySize request logs and at
\* most 1000 detections, and they are the most recent ones in arrival order.
C22_HistoryBounded ==
    /\ Len(requestLogs) <= MAX_HISTORY_SIZE
    /\ Len(detectionLogs) <= MAX_DETECTIONS_KEPT
    /\ requestLogs = mostRecent(logged.requests, MAX_HISTORY_SIZE)
    /\ detectionLogs = mostRecent(logged.detections, MAX_DETECTIONS_KEPT)

C22_Witness ==
    /\ logged.requests > MAX_HISTORY_SIZE
    /\ logged.detections > MAX_DETECTIONS_KEPT + 1

\* C23: the latest alert() has called every registered handler exactly once,
\* the AlertingSystem stores at most its 100 most recent alerts, and
\* getRecentAlerts(limit) returns the most recent alerts, at most limit.
C23_AlertsBounded ==
    /\ alerts # <<>> =>
         \A i \in 1..Len(handlers) :
             Cardinality({ k \in 1..Len(invoked) : invoked[k] = handlers[i] }) = 1
    /\ Len(alerts) <= DEFAULT_ALERT_LIMIT
    /\ \A limit \in 0..MaxLogged :
         sliceLast(alerts, limit) = mostRecent(logged.alerts, limit)

\* ------------------------------------------------------------------------
\* FingerprintGenerator: properties
\* ------------------------------------------------------------------------
\* the elements of an array
elements(array) == {array[i] : i \in 1..Len(array)}

\* C27: whatever flags are set, the identity generate() returns takes its
\* platform, user agent, vendor, WebGL vendor/renderer, core count, device
\* memory and viewport from one and the same platform record, and its fonts
\* and plugins are subsets of that record's pools
C27_OneProfile ==
    fingerprint.generated =>
        \E n \in 1..Len(platformProfiles) :
            LET profile == platformProfiles[n]
                identity == fingerprint.identity
            IN  /\ identity.platform = profile.platform
                /\ identity.userAgent \in elements(profile.userAgents)
                /\ identity.vendor = profile.vendor
                /\ elements(identity.fonts) \subseteq elements(profile.fonts)
                /\ elements(identity.plugins) \subseteq elements(profile.plugins)
                /\ identity.webglRenderer \in elements(profile.webglRenderers)
                /\ identity.hardwareConcurrency \in
                     profile.hardwareConcurrency.min..profile.hardwareConcurrency.max
                /\ identity.deviceMemory \in elements(profile.deviceMemory)
                /\ identity.viewport \in elements(profile.screenResolutions)

\* an identity of the macOS record generated with every flag set: the second
\* user agent, viewport, memory size and renderer, more cores than the minimum,
\* one font dropped and the plugins reordered and cut
C27_Witness ==
    /\ fingerprint.generated
    /\ \A flag \in DOMAIN fingerprint.config : fingerprint.config[flag]
    /\ fingerprint.identity.platform = "MacIntel"
    /\ fingerprint.identity.userAgent = platformProfiles[2].userAgents[2]
    /\ fingerprint.identity.viewport = platformProfiles[2].screenResolutions[2]
    /\ fingerprint.identity.deviceMemory = 16
    /\ fingerprint.identity.webglRenderer.vendor = "Apple Inc."
    /\ fingerprint.identity.hardwareConcurrency = 5
    /\ fingerprint.identity.fonts = <<"Arial">>
    /\ fingerprint.identity.plugins = <<"Chromium PDF Viewer", "PDF Viewer">>

\* ------------------------------------------------------------------------
\* ResidentialProxyManager: properties
\* ------------------------------------------------------------------------
\* the session has ended for getProxy: rotate() was called (or no session was
\* started yet), its age has reached sessionDuration, or, with rotateOnFailure,
\* the failures recorded since the last success have reached maxFailuresPerProxy
sessionOver ==
    \/ residential.currentSession = 0
    \/ /\ residential.config.sessionDuration # 0
       /\ residential.sessionAge >= residential.config.sessionDuration
    \/ /\ residential.config.rotateOnFailure
       /\ residential.sinceSuccess >=
            IF residential.config.maxFailuresPerProxy = 0
              THEN DEFAULT_MAX_FAILURES ELSE residential.config.maxFailuresPerProxy

\* C29: with sessionPersistence, getProxy() keeps the provider session of the
\* call before it unless the session's age has reached sessionDuration, the
\* failures recorded since the last success have reached maxFailuresPerProxy
\* (with rotateOnFailure) or rotate() was called; then it starts a session that
\* none of the earlier calls returned, whose failure count is zero (it has no
\* entry in failureCount, which the manager reads as 0)
C29_SessionKept ==
    [][(GetProxy /\ residential.config.sessionPersistence) =>
         IF sessionOver
           THEN /\ residential'.currentSession \notin 0..residential.issued
                /\ residential'.failureCount[residential'.currentSession]
                     \in {Undefined, 0}
           ELSE residential'.currentSession = residential.currentSession]_vars

\* the third session of a manager with sessionPersistence: the first one was
\* ended by rotate() or its age, and the second by two failures after a success
C29_Witness ==
    /\ residential.constructed
    /\ residential.config.sessionPersistence
    /\ residential.config.rotateOnFailure
    /\ residential.config.maxFailuresPerProxy = 2
    /\ residential.currentSession = 3
    /\ residential.failureCount[1] = 0
    /\ residential.failureCount[2] = 2
    /\ residential.failureCount[3] = Undefined

====
